---------------------------- MODULE Spec2Model ----------------------------
(***************************************************************************)
(* A model of the authentication and licensing core of SaveAny-Monitor:    *)
(*   - the envelope codec (encrypt_data / decrypt_data) of auth_module.py  *)
(*     and saveany_server.py, on bytes: JSON text, signature, base64, the  *)
(*     XOR-by-position step and base64 again;                              *)
(*   - AccountManager and LicenseManager of auth_module.py;                *)
(*   - the module-level account store, the HTTP handlers and the GUI       *)
(*     handlers of saveany_server.py.                                      *)
(*                                                                         *)
(* Text is a TLA+ string; bytes are sequences of 0..255.  Python values    *)
(* that travel through json are records [t, s, d] (see JStr, JBool, JNull, *)
(* JDict); a Python dict keeps its insertion order as a sequence of        *)
(* <<key, value>> pairs.  Python's None is JNull.                          *)
(*                                                                         *)
(* The two keyed hashes of the standard library (HMAC-SHA256, PBKDF2) are  *)
(* stood in for by short keyed polynomial hashes: deterministic, computed  *)
(* from every byte of their input, and collision-free on the inputs the    *)
(* model draws.                                                            *)
(***************************************************************************)
EXTENDS Integers, Sequences, FiniteSets, TLC

-----------------------------------------------------------------------------
(* Characters and bytes *)

\* The printable ASCII characters in code order: 32 (space) to 95 (_) and
\* 97 (a) to 126 (~).  Code 96 (the backquote) cannot be written in a TLA+
\* string and is left out of the model's text.
AsciiLow == " !\"#$%&'()*+,-./0123456789:;<=>?@ABCDEFGHIJKLMNOPQRSTUVWXYZ[\\]^_"
AsciiHigh == "abcdefghijklmnopqrstuvwxyz{|}~"

IsPrintable(b) == (b >= 32 /\ b <= 95) \/ (b >= 97 /\ b <= 126)

\* The bytes json text is made of: printable ASCII and the three control
\* characters json accepts as whitespace.
IsTextByte(b) == IsPrintable(b) \/ b \in {9, 10, 13}

\* chr() of a text byte.
Chr(b) ==
  IF b >= 32 /\ b <= 95 THEN SubSeq(AsciiLow, b - 31, b - 31)
  ELSE IF b >= 97 /\ b <= 126 THEN SubSeq(AsciiHigh, b - 96, b - 96)
  ELSE IF b = 9 THEN "\t" ELSE IF b = 10 THEN "\n" ELSE "\r"

TextBytes == {b \in 0..255 : IsTextByte(b)}

OrdTable == [c \in {Chr(b) : b \in TextBytes} |->
               CHOOSE b \in TextBytes : Chr(b) = c]

\* ord() of a one-character string.
Ord(c) == OrdTable[c]

CharAt(s, i) == SubSeq(s, i, i)

\* str.encode('utf-8') on ASCII text.
Utf8Encode(s) == [i \in 1..Len(s) |-> Ord(CharAt(s, i))]

\* The text of the bytes bs[lo..hi].
RECURSIVE TextOf(_, _, _)
TextOf(bs, lo, hi) ==
  IF lo > hi THEN ""
  ELSE IF lo = hi THEN Chr(bs[lo])
  ELSE TextOf(bs, lo, (lo + hi) \div 2) \o TextOf(bs, (lo + hi) \div 2 + 1, hi)

\* bytes.decode('utf-8'): raises on a byte that is not text.  The model's text
\* is ASCII; a byte of 128 and above, a control character other than the json
\* whitespace, the backquote and DEL end the decoding (in the code:
\* UnicodeDecodeError, a json parse error, or a payload whose signature no
\* longer matches: decrypt_data returns None for each).
Utf8Valid(bs) == \A i \in 1..Len(bs) : IsTextByte(bs[i])
Utf8Decode(bs) == TextOf(bs, 1, Len(bs))

RECURSIVE XorBits(_, _, _)
XorBits(a, b, n) ==
  IF n = 0 THEN 0
  ELSE (IF (a % 2) = (b % 2) THEN 0 ELSE 1) + 2 * XorBits(a \div 2, b \div 2, n - 1)

\* a ^ b on half bytes, tabulated.
XorNibble == [a \in 0..15 |-> [b \in 0..15 |-> XorBits(a, b, 4)]]

\* a ^ b on bytes.
Xor8(a, b) == 16 * XorNibble[a \div 16][b \div 16] + XorNibble[a % 16][b % 16]

-----------------------------------------------------------------------------
(* base64 (base64.b64encode / base64.b64decode, binascii) *)

B64Alphabet == "ABCDEFGHIJKLMNOPQRSTUVWXYZabcdefghijklmnopqrstuvwxyz0123456789+/"
B64Pad == Ord("=")

B64Char(v) == Ord(CharAt(B64Alphabet, v + 1))

\* binascii's table_a2b_base64: the value of a base64 character, 64 for every
\* other byte.
B64Table == [b \in 0..255 |->
               IF \E v \in 0..63 : B64Char(v) = b
                 THEN CHOOSE v \in 0..63 : B64Char(v) = b
                 ELSE 64]

ByteAt(bs, i) == IF i <= Len(bs) THEN bs[i] ELSE 0

\* base64.b64encode: three bytes to four characters, '=' padding.
B64Encode(bs) ==
  LET n == Len(bs)
      groups == (n + 2) \div 3
  IN  [j \in 1..(4 * groups) |->
         LET g  == (j - 1) \div 4
             k  == (j - 1) % 4
             b0 == ByteAt(bs, 3 * g + 1)
             b1 == ByteAt(bs, 3 * g + 2)
             b2 == ByteAt(bs, 3 * g + 3)
         IN  IF k = 0 THEN B64Char(b0 \div 4)
             ELSE IF k = 1 THEN B64Char((b0 % 4) * 16 + (b1 \div 16))
             ELSE IF k = 2 THEN (IF 3 * g + 2 > n THEN B64Pad
                                 ELSE B64Char((b1 % 16) * 4 + (b2 \div 64)))
             ELSE (IF 3 * g + 3 > n THEN B64Pad ELSE B64Char(b2 % 64))]

IsB64Char(c) == B64Table[c] < 64
IsB64CharOrPad(c) == c = B64Pad \/ IsB64Char(c)

\* base64.b64decode(cs), that is binascii.a2b_base64 in its default non-strict
\* mode: [ok, out], ok FALSE where binascii.Error is raised.  The decoder
\* skips every byte that is neither a base64 character nor '='; it skips a
\* '=' met in the first half of a quad; it stops, ignoring the rest, at the
\* '=' that completes a quad (the first '=' after three characters of a quad,
\* the second after two); and it raises when the input ends inside a quad.
\* The bytes of the base64 values vs; stopped says that the decoder stopped at
\* a completing '='.
B64Bytes(vs, stopped) ==
  [ok  |-> stopped \/ Len(vs) % 4 = 0,
   out |-> [j \in 1..(3 * (Len(vs) \div 4)
                      + (IF Len(vs) % 4 = 2 THEN 1 ELSE IF Len(vs) % 4 = 3 THEN 2 ELSE 0)) |->
              IF (j - 1) % 3 = 0
                THEN B64Table[vs[4 * ((j - 1) \div 3) + 1]] * 4
                     + (B64Table[vs[4 * ((j - 1) \div 3) + 2]] \div 16)
              ELSE IF (j - 1) % 3 = 1
                THEN (B64Table[vs[4 * ((j - 1) \div 3) + 2]] % 16) * 16
                     + (B64Table[vs[4 * ((j - 1) \div 3) + 3]] \div 4)
              ELSE (B64Table[vs[4 * ((j - 1) \div 3) + 3]] % 4) * 64
                   + B64Table[vs[4 * ((j - 1) \div 3) + 4]]]]

\* The position of the '=' the decoder stops at, among the '=' positions pads
\* of sig; 0 if it stops at none.  The base64 characters before position i
\* number (i - 1) less the pads before i: quad_pos is this modulo 4.
B64Stop(pads) ==
  LET before(i) == (i - 1) - Cardinality({j \in pads : j < i})
      stops == {i \in pads : \/ before(i) % 4 = 3
                             \/ before(i) % 4 = 2 /\ (i - 1) \in pads}
  IN  IF stops = {} THEN 0 ELSE CHOOSE i \in stops : \A j \in stops : i <= j

\* The decoding of sig, base64 characters and '=' only, that stops at stop.
B64Stopped(sig, stop) ==
  B64Bytes(SelectSeq(SubSeq(sig, 1, IF stop = 0 THEN Len(sig) ELSE stop - 1), IsB64Char),
           stop # 0)

\* The decoding of sig, base64 characters and '=' only.
B64Significant(sig) == B64Stopped(sig, B64Stop({i \in 1..Len(sig) : sig[i] = B64Pad}))

B64Decode(cs) == B64Significant(SelectSeq(cs, IsB64CharOrPad))

-----------------------------------------------------------------------------
(* Python values and json *)

JStr(x) == [t |-> "str", s |-> x, d |-> <<>>]
JBool(b) == [t |-> "bool", s |-> IF b THEN "true" ELSE "false", d |-> <<>>]
JNull == [t |-> "null", s |-> "", d |-> <<>>]
JDict(pairs) == [t |-> "dict", s |-> "", d |-> pairs]
EmptyDict == JDict(<<>>)

\* Python's truth value of v (`if data:`, `if not token_data:`).
Truthy(v) ==
  IF v.t = "dict" THEN Len(v.d) > 0
  ELSE IF v.t = "str" THEN Len(v.s) > 0
  ELSE IF v.t = "bool" THEN v.s = "true"
  ELSE FALSE

\* `key in d` for a dict d.
HasKey(v, key) == \E i \in 1..Len(v.d) : v.d[i][1] = key

KeyIndex(v, key) == CHOOSE i \in 1..Len(v.d) : v.d[i][1] = key

\* d[key] for a key that is in d.
Item(v, key) == v.d[KeyIndex(v, key)][2]

\* d.get(key, default).
Get(v, key, default) == IF HasKey(v, key) THEN Item(v, key) ELSE default

\* d[key] = val: in place for a key that is in d, at the end otherwise.
SetItem(v, key, val) ==
  IF HasKey(v, key)
    THEN JDict([v.d EXCEPT ![KeyIndex(v, key)] = <<key, val>>])
    ELSE JDict(Append(v.d, <<key, val>>))

\* del d[key].
DelItem(v, key) ==
  LET k == KeyIndex(v, key)
  IN  JDict(SubSeq(v.d, 1, k - 1) \o SubSeq(v.d, k + 1, Len(v.d)))

Keys(v) == {v.d[i][1] : i \in 1..Len(v.d)}

\* d1 == d2 on dicts: the same keys with equal values, in any order.
RECURSIVE PyEq(_, _)
PyEq(a, b) ==
  IF a.t # b.t THEN FALSE
  ELSE IF a.t # "dict" THEN a.s = b.s
  ELSE /\ Keys(a) = Keys(b)
       /\ \A k \in Keys(a) : PyEq(Item(a, k), Item(b, k))

\* json.dumps(v, ensure_ascii=False): separators ", " and ": ", keys in
\* insertion order.  The model's strings hold no character json escapes.
RECURSIVE Dumps(_)
RECURSIVE DumpsItems(_, _)
Dumps(v) ==
  IF v.t = "str" THEN "\"" \o v.s \o "\""
  ELSE IF v.t = "bool" THEN v.s
  ELSE IF v.t = "null" THEN "null"
  ELSE "{" \o DumpsItems(v.d, 1) \o "}"

DumpsItems(d, i) ==
  IF i > Len(d) THEN ""
  ELSE (IF i > 1 THEN ", " ELSE "") \o "\"" \o d[i][1] \o "\": "
       \o Dumps(d[i][2]) \o DumpsItems(d, i + 1)

IsWs(c) == c \in {" ", "\t", "\n", "\r"}

\* The first index from i on that holds no whitespace (Len(s) + 1 at the end).
SkipWs(s, i) ==
  CHOOSE j \in i..(Len(s) + 1) :
    /\ j = Len(s) + 1 \/ ~IsWs(CharAt(s, j))
    /\ \A k \in i..(j - 1) : IsWs(CharAt(s, k))

ParseFail == [ok |-> FALSE, val |-> JNull, pos |-> 0]

\* The index of the quote closing the string whose text starts at i; 0 when
\* the string does not end, or holds a control character (json rejects it) or
\* a backslash (escapes are outside the model's text).
StringStop(c) == c \in {"\"", "\\", "\t", "\n", "\r"}

StringEnd(s, i) ==
  LET e == CHOOSE j \in i..(Len(s) + 1) :
             /\ j = Len(s) + 1 \/ StringStop(CharAt(s, j))
             /\ \A k \in i..(j - 1) : ~StringStop(CharAt(s, k))
  IN  IF e <= Len(s) /\ CharAt(s, e) = "\"" THEN e ELSE 0

\* A json string whose opening quote is at i.
ParseString(s, i) ==
  LET e == StringEnd(s, i + 1)
  IN  IF e = 0 THEN ParseFail
      ELSE [ok |-> TRUE, val |-> JStr(SubSeq(s, i + 1, e - 1)), pos |-> e + 1]

StartsWith(s, i, w) == i + Len(w) - 1 <= Len(s) /\ SubSeq(s, i, i + Len(w) - 1) = w

\* json.loads on the values the program writes: strings, true, false, null and
\* objects; whitespace between tokens as json allows it.  Numbers and arrays,
\* which the program never writes, are parse errors here.
RECURSIVE ParseValue(_, _)
RECURSIVE ParseMembers(_, _, _)
ParseValue(s, i) ==
  IF i > Len(s) THEN ParseFail
  ELSE IF CharAt(s, i) = "\"" THEN ParseString(s, i)
  ELSE IF StartsWith(s, i, "true") THEN [ok |-> TRUE, val |-> JBool(TRUE), pos |-> i + 4]
  ELSE IF StartsWith(s, i, "false") THEN [ok |-> TRUE, val |-> JBool(FALSE), pos |-> i + 5]
  ELSE IF StartsWith(s, i, "null") THEN [ok |-> TRUE, val |-> JNull, pos |-> i + 4]
  ELSE IF CharAt(s, i) = "{" THEN
    LET j == SkipWs(s, i + 1)
    IN  IF j <= Len(s) /\ CharAt(s, j) = "}"
          THEN [ok |-> TRUE, val |-> EmptyDict, pos |-> j + 1]
          ELSE ParseMembers(s, j, EmptyDict)
  ELSE ParseFail

\* The members of an object from the key at i on, added to acc: a later
\* member replaces an earlier one of the same key (dict semantics).
ParseMembers(s, i, acc) ==
  IF i > Len(s) \/ CharAt(s, i) # "\"" THEN ParseFail
  ELSE LET k == ParseString(s, i) IN
    IF ~k.ok THEN ParseFail
    ELSE LET c == SkipWs(s, k.pos) IN
      IF c > Len(s) \/ CharAt(s, c) # ":" THEN ParseFail
      ELSE LET v == ParseValue(s, SkipWs(s, c + 1)) IN
        IF ~v.ok THEN ParseFail
        ELSE LET e   == SkipWs(s, v.pos)
                 got == SetItem(acc, k.val.s, v.val)
             IN IF e > Len(s) THEN ParseFail
                ELSE IF CharAt(s, e) = "}" THEN [ok |-> TRUE, val |-> got, pos |-> e + 1]
                ELSE IF CharAt(s, e) = "," THEN ParseMembers(s, SkipWs(s, e + 1), got)
                ELSE ParseFail

\* json.loads(s): [ok, val]; ok is FALSE where JSONDecodeError is raised.
Loads(s) ==
  LET v == ParseValue(s, SkipWs(s, 1))
  IN  IF v.ok /\ SkipWs(s, v.pos) = Len(s) + 1
        THEN [ok |-> TRUE, val |-> v.val]
        ELSE [ok |-> FALSE, val |-> JNull]

-----------------------------------------------------------------------------
(* Hashing primitives *)

SECRET_KEY == "SaveAny-Monitor-Auth-Key-2024-Secure"

\* The polynomial hash step h -> (h * mult + b + 1) % modulus, taken over the
\* bytes bs[lo..hi], as the map h -> (a * h + c) % modulus it amounts to: <<a, c>>.
RECURSIVE PolyMap(_, _, _, _, _)
PolyMap(bs, lo, hi, mult, modulus) ==
  IF lo = hi THEN <<mult % modulus, (bs[lo] + 1) % modulus>>
  ELSE LET l == PolyMap(bs, lo, (lo + hi) \div 2, mult, modulus)
           r == PolyMap(bs, (lo + hi) \div 2 + 1, hi, mult, modulus)
       IN  <<(l[1] * r[1]) % modulus, (l[2] * r[1] + r[2]) % modulus>>

\* The polynomial hash of the bytes bs, from h.
PolyHash(bs, h, mult, modulus) ==
  IF Len(bs) = 0 THEN h
  ELSE LET m == PolyMap(bs, 1, Len(bs), mult, modulus)
       IN  (m[1] * h + m[2]) % modulus

Digest(key, msg, mult, modulus) ==
  PolyHash(msg, PolyHash(key, 1, mult, modulus), mult, modulus)

\* hmac.new(key, msg, sha256).digest(), stood in for by four bytes of two
\* keyed polynomial hashes.
Hmac(key, msg) ==
  LET h1 == Digest(key, msg, 257, 32749)
      h2 == Digest(key, msg, 263, 32719)
  IN  <<h1 \div 256, h1 % 256, h2 \div 256, h2 % 256>>

\* hashlib.pbkdf2_hmac('sha256', password, salt, 100000), stood in for by
\* three bytes of two polynomial hashes keyed by the salt.
Pbkdf2(password, salt) ==
  LET h1 == Digest(salt, password, 259, 32749)
      h2 == Digest(salt, password, 269, 251)
  IN  <<h1 \div 256, h1 % 256, h2>>

hash_password(password, salt) ==
  Utf8Decode(B64Encode(Pbkdf2(Utf8Encode(password), Utf8Encode(salt))))

create_signature(data) ==
  Utf8Decode(B64Encode(Hmac(Utf8Encode(SECRET_KEY), Utf8Encode(data))))

\* verify_signature that accepts every signature.
verify_signature_unchecked(data, signature) == signature.t = "str"

\* hmac.compare_digest(expected, signature) on a json value: TypeError (FALSE
\* here, None in decrypt_data) for a signature that is no string.
verify_signature(data, signature) ==
  signature.t = "str" /\ create_signature(data) = signature.s

-----------------------------------------------------------------------------
(* The envelope codec *)

\* The loop of encrypt_data: result.append(b ^ (i % 256)), i from 0.
Obfuscate(bs) == [i \in 1..Len(bs) |-> Xor8(bs[i], (i - 1) % 256)]

\* Deobfuscate with the positions counted from one.
DeobfuscateFromOne(bs) == [i \in 1..Len(bs) |-> Xor8(bs[i], i % 256)]

\* The loop of decrypt_data: result.append(b ^ (i % 256)), i from 0.
Deobfuscate(bs) == [i \in 1..Len(bs) |-> Xor8(bs[i], (i - 1) % 256)]

\* encrypt_data(data): the envelope string, as its character codes.
encrypt_data(data) ==
  LET json_str  == Dumps(data)
      signature == create_signature(json_str)
      full_data == JDict(<< <<"data", data>>, <<"signature", JStr(signature)>> >>)
      encoded   == B64Encode(Utf8Encode(Dumps(full_data)))
  IN  B64Encode(Obfuscate(encoded))

\* decrypt_data that returns the payload without comparing the signature.
DecryptParsedUnverified(full_data) ==
  IF ~full_data.ok \/ full_data.val.t # "dict" THEN JNull
  ELSE IF ~HasKey(full_data.val, "data") \/ ~HasKey(full_data.val, "signature")
    THEN JNull
    ELSE Item(full_data.val, "data")

\* decrypt_data from json.loads on: full_data is what json.loads gave, [ok, val].
DecryptParsed(full_data) ==
  IF ~full_data.ok \/ full_data.val.t # "dict" THEN JNull
  ELSE IF ~HasKey(full_data.val, "data") \/ ~HasKey(full_data.val, "signature")
    THEN JNull
  ELSE IF ~verify_signature(Dumps(Item(full_data.val, "data")),
                            Item(full_data.val, "signature"))
    THEN JNull
    ELSE Item(full_data.val, "data")

\* decrypt_data from the inner base64.b64decode on: decoded is what it gave,
\* [ok, out].
DecryptDecoded(decoded) ==
  IF ~decoded.ok \/ ~Utf8Valid(decoded.out) THEN JNull
  ELSE DecryptParsed(Loads(Utf8Decode(decoded.out)))

\* decrypt_data from the outer base64.b64decode on: data is what it gave,
\* [ok, out].
DecryptObfuscated(data) ==
  IF ~data.ok THEN JNull
  ELSE DecryptDecoded(B64Decode(Deobfuscate(data.out)))

\* decrypt_data(encrypted): the payload, or None (JNull) where the code
\* returns None after a failed signature check or from its except clause.
decrypt_data(encrypted) == DecryptObfuscated(B64Decode(encrypted))

-----------------------------------------------------------------------------
(* Files, time, messages *)

\* A file: whether it exists, and the characters in it.
NoFile == [exists |-> FALSE, text |-> <<>>]
FileOf(text) == [exists |-> TRUE, text |-> text]

\* datetime.now().strftime(...): the clock reading as text.
Stamp(clock) == "T" \o Chr(Ord("0") + clock)

\* The outcomes of opening a file for writing and writing it: written; open()
\* raises and the file is as before; write() raises after open() has
\* truncated the file.
WriteOutcomes == {"ok", "open_fails", "write_fails"}

\* The outcomes of opening a file and reading it.
ReadOutcomes == {"ok", "read_fails"}

WriteFile(file, text, io) ==
  IF io = "ok" THEN FileOf(text)
  ELSE IF io = "write_fails" THEN FileOf(<<>>)
  ELSE file

\* The messages of auth_module.py and saveany_server.py, in English.
MsgEmpty        == "username and password must not be empty"
MsgShortName    == "username needs at least 3 characters"
MsgShortPass    == "password needs at least 6 characters"
MsgExists       == "username already exists"
MsgCreated      == "account created"
MsgNotFound     == "account not found"
MsgDeleted      == "account deleted"
MsgDisabled     == "account disabled"
MsgEnabled      == "account enabled"
MsgWrongPass    == "wrong password"
MsgVerified     == "verified"
MsgLicenseMade  == "license generated"
MsgNoLicense    == "license not found"
MsgNameMismatch == "username mismatch"
MsgTokenEmpty   == "token must not be empty"
MsgTokenInvalid == "token invalid"
MsgTokenValid   == "token valid"
MsgSnapshotInvalid == "account data invalid"
MsgLicensed     == "license created"
MsgSaveFailed   == "saving the license file failed"
MsgLicenseFailed == "licensing failed"
MsgSelectDelete == "select the account to delete first"
MsgSelectFirst  == "select an account first"

MinUsernameLen == 3
MinPasswordLen == 6

\* What a call gave its caller: (ok, msg), the text it returned beside them,
\* or an exception (raised).  wanted is what the caller had in mind and the
\* call has no parameter for.
Result(op, username, password, ok, msg) ==
  [op |-> op, username |-> username, password |-> password, ok |-> ok,
   msg |-> msg, raised |-> FALSE, out |-> <<>>, wanted |-> ""]
Raised(op, username, password) ==
  [op |-> op, username |-> username, password |-> password, ok |-> FALSE,
   msg |-> "", raised |-> TRUE, out |-> <<>>, wanted |-> ""]
NoCall == Result("none", "", "", FALSE, "")

-----------------------------------------------------------------------------
(* auth_module.AccountManager: self is [accounts, file] *)

Account(salt, password_hash, created, enabled) ==
  JDict(<< <<"salt", JStr(salt)>>, <<"password_hash", JStr(password_hash)>>,
           <<"created", JStr(created)>>, <<"enabled", JBool(enabled)>> >>)

\* The payload save_accounts writes.
StorePayload(accounts, now) ==
  JDict(<< <<"accounts", accounts>>, <<"updated", JStr(now)>> >>)

\* save_accounts: the file after it; the caller sees an exception unless
\* io = "ok".
save_accounts(self, now, io) ==
  WriteFile(self.file, encrypt_data(StorePayload(self.accounts, now)), io)

\* load_accounts from decrypt_data on: data is what it returned.
LoadedAccounts(self, data) ==
  IF ~Truthy(data) THEN self.accounts
  \* data.get on a payload that is no dict: the except clause
  ELSE IF data.t # "dict" THEN EmptyDict
  ELSE Get(data, "accounts", EmptyDict)

\* load_accounts: self.accounts after it.
load_accounts(self, io) ==
  IF ~self.file.exists THEN self.accounts
  ELSE IF io = "read_fails" THEN EmptyDict
  ELSE LoadedAccounts(self, decrypt_data(self.file.text))

\* add_account: [accounts, file, result].
add_account(self, username, password, salt, now, io) ==
  LET keep(msg) == [accounts |-> self.accounts, file |-> self.file,
                    result |-> Result("add_account", username, password, FALSE, msg)]
  IN
  IF Len(username) = 0 \/ Len(password) = 0 THEN keep(MsgEmpty)
  ELSE IF Len(username) < MinUsernameLen THEN keep(MsgShortName)
  ELSE IF Len(password) < MinPasswordLen THEN keep(MsgShortPass)
  ELSE IF HasKey(self.accounts, username) THEN keep(MsgExists)
  ELSE LET password_hash == hash_password(password, salt)
           accounts == SetItem(self.accounts, username,
                               Account(salt, password_hash, now, TRUE))
       IN [accounts |-> accounts,
           file     |-> save_accounts([self EXCEPT !.accounts = accounts], now, io),
           result   |-> IF io = "ok"
                          THEN Result("add_account", username, password, TRUE, MsgCreated)
                          ELSE Raised("add_account", username, password)]

\* delete_account: [accounts, file, result].
delete_account(self, username, now, io) ==
  IF ~HasKey(self.accounts, username)
    THEN [accounts |-> self.accounts, file |-> self.file,
          result |-> Result("delete_account", username, "", FALSE, MsgNotFound)]
    ELSE LET accounts == DelItem(self.accounts, username)
         IN [accounts |-> accounts,
             file     |-> save_accounts([self EXCEPT !.accounts = accounts], now, io),
             result   |-> IF io = "ok"
                            THEN Result("delete_account", username, "", TRUE, MsgDeleted)
                            ELSE Raised("delete_account", username, "")]

\* account.get('enabled', True).
Enabled(account) == Get(account, "enabled", JBool(TRUE)).s = "true"

\* verify_account that compares the password before it looks at the enabled
\* flag.
verify_account_hash_first(self, username, password) ==
  IF ~HasKey(self.accounts, username)
    THEN Result("verify_account", username, password, FALSE, MsgNotFound)
  ELSE LET account == Item(self.accounts, username) IN
    IF hash_password(password, Item(account, "salt").s)
         # Item(account, "password_hash").s
      THEN Result("verify_account", username, password, FALSE, MsgWrongPass)
    ELSE IF ~Enabled(account)
      THEN Result("verify_account", username, password, FALSE, MsgDisabled)
    ELSE Result("verify_account", username, password, TRUE, MsgVerified)

\* verify_account: (ok, msg).
verify_account(self, username, password) ==
  IF ~HasKey(self.accounts, username)
    THEN Result("verify_account", username, password, FALSE, MsgNotFound)
  ELSE LET account == Item(self.accounts, username) IN
    IF ~Enabled(account)
      THEN Result("verify_account", username, password, FALSE, MsgDisabled)
    ELSE IF hash_password(password, Item(account, "salt").s)
              # Item(account, "password_hash").s
      THEN Result("verify_account", username, password, FALSE, MsgWrongPass)
    ELSE Result("verify_account", username, password, TRUE, MsgVerified)

\* toggle_account: [accounts, file, result].
toggle_account(self, username, now, io) ==
  IF ~HasKey(self.accounts, username)
    THEN [accounts |-> self.accounts, file |-> self.file,
          result |-> Result("toggle_account", username, "", FALSE, MsgNotFound)]
    ELSE LET account  == Item(self.accounts, username)
             accounts == SetItem(self.accounts, username,
                                 SetItem(account, "enabled", JBool(~Enabled(account))))
         IN [accounts |-> accounts,
             file     |-> save_accounts([self EXCEPT !.accounts = accounts], now, io),
             result   |-> IF io = "ok"
                            THEN Result("toggle_account", username, "", TRUE,
                                        IF Enabled(Item(accounts, username))
                                          THEN MsgEnabled ELSE MsgDisabled)
                            ELSE Raised("toggle_account", username, "")]

\* get_machine_id() that always takes its except branch.
get_machine_id_unknown(host) == "unknown"

\* get_machine_id(): the identifier of the machine the call runs on.
get_machine_id(host) == host

\* The license payload with the hash re-derived from the username instead of
\* copied from the account.
LicensePayloadRehashed(username, account, now, host) ==
  JDict(<< <<"username", JStr(username)>>,
           <<"password_hash", JStr(hash_password(username, Item(account, "salt").s))>>,
           <<"salt", Item(account, "salt")>>,
           <<"issued", JStr(now)>>,
           <<"machine_id", JStr(get_machine_id(host))>> >>)

\* The license payload generate_license and create_license_from_login build.
LicensePayload(username, account, now, host) ==
  JDict(<< <<"username", JStr(username)>>,
           <<"password_hash", Item(account, "password_hash")>>,
           <<"salt", Item(account, "salt")>>,
           <<"issued", JStr(now)>>,
           <<"machine_id", JStr(get_machine_id(host))>> >>)

\* generate_license: (ok, msg, license_content).
generate_license(self, username, password, now, host) ==
  LET v == verify_account(self, username, password) IN
  IF ~v.ok
    THEN Result("generate_license", username, password, FALSE, v.msg)
    ELSE [Result("generate_license", username, password, TRUE, MsgLicenseMade)
            EXCEPT !.out = encrypt_data(
                     LicensePayload(username, Item(self.accounts, username), now, host))]

-----------------------------------------------------------------------------
(* auth_module.LicenseManager: self is [license_data, file] *)

\* load_license from decrypt_data on: data is what it returned.
LoadedLicense(data) ==
  [license_data |-> data, result |-> Result("load_license", "", "", data # JNull, "")]

\* load_license: [license_data, result]; result is the bool it returns.
load_license(self, io) ==
  IF ~self.file.exists \/ io = "read_fails"
    THEN [license_data |-> self.license_data,
          result |-> Result("load_license", "", "", FALSE, "")]
    ELSE LoadedLicense(decrypt_data(self.file.text))

\* save_license that writes only what decrypt_data accepts.
save_license_validating(self, license_content, io) ==
  IF decrypt_data(license_content) = JNull
    THEN [file |-> self.file, result |-> Result("save_license", "", "", FALSE, "")]
    ELSE [file   |-> WriteFile(self.file, license_content, io),
          result |-> Result("save_license", "", "", io = "ok", "")]

\* save_license: [file, result]; result is the bool it returns.
save_license(self, license_content, io) ==
  [file   |-> WriteFile(self.file, license_content, io),
   result |-> Result("save_license", "", "", io = "ok", "")]

is_licensed(self) == self.license_data # JNull

\* get_username, for a license that is a dict or None.
get_username(self) ==
  IF Truthy(self.license_data)
    THEN Get(self.license_data, "username", JStr("")).s
    ELSE ""

\* verify_offline that compares the password before the username.
verify_offline_hash_first(self, username, password) ==
  IF ~Truthy(self.license_data)
    THEN Result("verify_offline", username, password, FALSE, MsgNoLicense)
  ELSE IF hash_password(password, Get(self.license_data, "salt", JStr("")).s)
            # Get(self.license_data, "password_hash", JStr("")).s
    THEN Result("verify_offline", username, password, FALSE, MsgWrongPass)
  ELSE IF Get(self.license_data, "username", JNull) # JStr(username)
    THEN Result("verify_offline", username, password, FALSE, MsgNameMismatch)
  ELSE Result("verify_offline", username, password, TRUE, MsgVerified)

\* verify_offline that also wants the license to be of one machine.
verify_offline_machine_bound(self, username, password) ==
  IF ~Truthy(self.license_data)
    THEN Result("verify_offline", username, password, FALSE, MsgNoLicense)
  ELSE IF Get(self.license_data, "machine_id", JStr("")).s # get_machine_id("c11e")
    THEN Result("verify_offline", username, password, FALSE, MsgNameMismatch)
  ELSE IF Get(self.license_data, "username", JNull) # JStr(username)
    THEN Result("verify_offline", username, password, FALSE, MsgNameMismatch)
  ELSE IF hash_password(password, Get(self.license_data, "salt", JStr("")).s)
            # Get(self.license_data, "password_hash", JStr("")).s
    THEN Result("verify_offline", username, password, FALSE, MsgWrongPass)
  ELSE Result("verify_offline", username, password, TRUE, MsgVerified)

\* verify_offline that stops after the username check.
verify_offline_name_only(self, username, password) ==
  IF ~Truthy(self.license_data)
    THEN Result("verify_offline", username, password, FALSE, MsgNoLicense)
  ELSE IF Get(self.license_data, "username", JNull) # JStr(username)
    THEN Result("verify_offline", username, password, FALSE, MsgNameMismatch)
  ELSE Result("verify_offline", username, password, TRUE, MsgVerified)

\* verify_offline: (ok, msg), for a license that is a dict or None.
verify_offline(self, username, password) ==
  IF ~Truthy(self.license_data)
    THEN Result("verify_offline", username, password, FALSE, MsgNoLicense)
  ELSE IF Get(self.license_data, "username", JNull) # JStr(username)
    THEN Result("verify_offline", username, password, FALSE, MsgNameMismatch)
  ELSE LET salt        == Get(self.license_data, "salt", JStr("")).s
           stored_hash == Get(self.license_data, "password_hash", JStr("")).s
       IN IF hash_password(password, salt) # stored_hash
            THEN Result("verify_offline", username, password, FALSE, MsgWrongPass)
            ELSE Result("verify_offline", username, password, TRUE, MsgVerified)

\* create_license_from_login returning (False, msg): nothing is changed.
CreateFailed(self, username, password, msg) ==
  [license_data |-> self.license_data, file |-> self.file,
   result |-> Result("create_license_from_login", username, password, FALSE, msg)]

\* create_license_from_login that keeps the license it built in memory
\* although save_license returned False.
CreateSavedUnchecked(self, username, password, license, io) ==
  [license_data |-> license,
   file   |-> save_license(self, encrypt_data(license), io).file,
   result |-> IF io = "ok"
                THEN Result("create_license_from_login", username, password, TRUE, MsgLicensed)
                ELSE Result("create_license_from_login", username, password, FALSE,
                            MsgSaveFailed)]

\* create_license_from_login from save_license on: license is the payload
\* it built.
CreateSaved(self, username, password, license, io) ==
  [license_data |-> IF io = "ok" THEN license ELSE self.license_data,
   file   |-> save_license(self, encrypt_data(license), io).file,
   result |-> IF io = "ok"
                THEN Result("create_license_from_login", username, password, TRUE, MsgLicensed)
                ELSE Result("create_license_from_login", username, password, FALSE,
                            MsgSaveFailed)]

\* create_license_from_login from the account on: account is
\* accounts[username].  What raises inside the try block comes back as the
\* message of the except branch.
CreateFromAccount(self, username, password, account, now, host, io) ==
  IF account.t # "dict"
    THEN CreateFailed(self, username, password, MsgLicenseFailed)
  ELSE IF ~Truthy(Get(account, "enabled", JBool(TRUE)))
    THEN CreateFailed(self, username, password, MsgDisabled)
  ELSE IF ~HasKey(account, "salt") \/ Get(account, "salt", JNull).t # "str"
            \/ ~HasKey(account, "password_hash")
    THEN CreateFailed(self, username, password, MsgLicenseFailed)
  ELSE IF JStr(hash_password(password, Item(account, "salt").s))
            # Item(account, "password_hash")
    THEN CreateFailed(self, username, password, MsgWrongPass)
  ELSE CreateSaved(self, username, password,
                   LicensePayload(username, account, now, host), io)

\* create_license_from_login from the lookup on: accounts is
\* data.get('accounts', {}).  `username in accounts` is a key lookup in a
\* dict, a substring test in a str and raises for the other values.
CreateFromAccounts(self, username, password, accounts, now, host, io) ==
  IF accounts.t = "dict"
    THEN IF ~HasKey(accounts, username)
           THEN CreateFailed(self, username, password, MsgNotFound)
           ELSE CreateFromAccount(self, username, password, Item(accounts, username),
                                  now, host, io)
  ELSE IF accounts.t = "str"
    THEN IF \E i \in 1..(Len(accounts.s) - Len(username) + 1) :
              SubSeq(accounts.s, i, i + Len(username) - 1) = username
           THEN CreateFailed(self, username, password, MsgLicenseFailed)
           ELSE CreateFailed(self, username, password, MsgNotFound)
  ELSE CreateFailed(self, username, password, MsgLicenseFailed)

\* create_license_from_login from decrypt_data on: data is what it returned.
CreateFromData(self, username, password, data, now, host, io) ==
  IF ~Truthy(data)
    THEN CreateFailed(self, username, password, MsgSnapshotInvalid)
  ELSE IF data.t # "dict"
    THEN CreateFailed(self, username, password, MsgLicenseFailed)
  ELSE CreateFromAccounts(self, username, password,
                          Get(data, "accounts", EmptyDict), now, host, io)

\* create_license_from_login: [license_data, file, result].
create_license_from_login(self, username, password, accounts_data, now, host, io) ==
  CreateFromData(self, username, password, decrypt_data(accounts_data), now, host, io)

-----------------------------------------------------------------------------
(* saveany_server.py: the module-level store, the log, the HTTP handlers and *)
(* the handlers of the window; their state is passed in and handed back     *)

\* load_accounts() from decrypt_data on: data is what it returned.
ServerLoadedAccounts(data) ==
  \* data.get on a payload that is no dict: the except clause, then accounts = {}
  IF ~Truthy(data) \/ data.t # "dict" THEN EmptyDict
  ELSE Get(data, "accounts", EmptyDict)

\* load_accounts(): the global accounts after it.
server_load_accounts(file, io) ==
  IF ~file.exists \/ io = "read_fails" THEN EmptyDict
  ELSE ServerLoadedAccounts(decrypt_data(file.text))

\* save_accounts(): the file after it; the caller sees an exception unless
\* io = "ok".
server_save_accounts(accounts, file, now, io) ==
  WriteFile(file, encrypt_data(StorePayload(accounts, now)), io)

LogLimit == 1000
LogKeep == 500

\* add_log that cuts the log to its oldest entries.
add_log_keep_oldest(log, now, message) ==
  LET appended == Append(log, "[" \o now \o "] " \o message)
  IN  IF Len(appended) > LogLimit
        THEN SubSeq(appended, 1, LogKeep)
        ELSE appended

\* add_log(message): server_log after it.
add_log(log, now, message) ==
  LET appended == Append(log, "[" \o now \o "] " \o message)
  IN  IF Len(appended) > LogLimit
        THEN SubSeq(appended, Len(appended) - LogKeep + 1, Len(appended))
        ELSE appended

\* send_json(data): the response goes out and log_message logs the request
\* line; server_log after it.
send_json(log, now, path) == add_log(log, now, "HTTP: POST " \o path \o " HTTP/1.1")

\* The token payload /api/verify builds.
TokenPayload(username, now, valid) ==
  JDict(<< <<"username", JStr(username)>>, <<"issued", JStr(now)>>,
           <<"valid", JBool(valid)>> >>)

\* /api/verify that compares the password before it looks at the enabled flag.
api_verify_hash_first(accounts, log, username, password, now) ==
  LET sent == send_json(log, now, "/api/verify")
      answer(ok, msg, entry) ==
        [log |-> add_log(sent, now, entry),
         response |-> Result("api_verify", username, password, ok, msg)]
  IN
  IF Len(username) = 0 \/ Len(password) = 0
    THEN answer(FALSE, MsgEmpty, "verify failed: empty username or password")
  ELSE IF ~HasKey(accounts, username)
    THEN answer(FALSE, MsgNotFound, "verify failed: account " \o username \o " not found")
  ELSE LET account == Item(accounts, username) IN
    IF hash_password(password, Item(account, "salt").s) # Item(account, "password_hash").s
      THEN answer(FALSE, MsgWrongPass,
                  "verify failed: account " \o username \o " wrong password")
    ELSE IF ~Enabled(account)
      THEN answer(FALSE, MsgDisabled, "verify failed: account " \o username \o " disabled")
    ELSE [log |-> add_log(sent, now, "verified: account " \o username),
          response |-> [Result("api_verify", username, password, TRUE, MsgVerified)
                          EXCEPT !.out = encrypt_data(TokenPayload(username, now, TRUE))]]

\* do_POST, /api/verify: [log, response]; response.out is the token.
api_verify(accounts, log, username, password, now) ==
  LET sent == send_json(log, now, "/api/verify")
      answer(ok, msg, entry) ==
        [log |-> add_log(sent, now, entry),
         response |-> Result("api_verify", username, password, ok, msg)]
  IN
  IF Len(username) = 0 \/ Len(password) = 0
    THEN answer(FALSE, MsgEmpty, "verify failed: empty username or password")
  ELSE IF ~HasKey(accounts, username)
    THEN answer(FALSE, MsgNotFound, "verify failed: account " \o username \o " not found")
  ELSE LET account == Item(accounts, username) IN
    IF ~Enabled(account)
      THEN answer(FALSE, MsgDisabled, "verify failed: account " \o username \o " disabled")
    ELSE IF hash_password(password, Item(account, "salt").s)
              # Item(account, "password_hash").s
      THEN answer(FALSE, MsgWrongPass,
                  "verify failed: account " \o username \o " wrong password")
    ELSE [log |-> add_log(sent, now, "verified: account " \o username),
          response |-> [Result("api_verify", username, password, TRUE, MsgVerified)
                          EXCEPT !.out = encrypt_data(TokenPayload(username, now, TRUE))]]

\* What /api/validate_token answers: [log, response]; response.out is the
\* token that was presented, response.username the username in the answer.
TokenAnswer(log, token, name, ok, msg) ==
  [log |-> log,
   response |-> [Result("api_validate_token", name, "", ok, msg) EXCEPT !.out = token]]

\* /api/validate_token ends in an exception: no answer, nothing logged.
TokenRaised(log, token) ==
  [log |-> log, response |-> [Raised("api_validate_token", "", "") EXCEPT !.out = token]]

\* The account check that trusts the token's own valid flag instead of the
\* account's enabled flag.
ValidateUsernameCached(accounts, log, sent, token, token_data, username) ==
  IF username.t = "dict" THEN TokenRaised(log, token)
  ELSE IF username.t # "str" \/ ~HasKey(accounts, username.s)
    THEN TokenAnswer(sent, token, "", FALSE, MsgNotFound)
  ELSE IF ~Truthy(Get(token_data, "valid", JBool(TRUE)))
    THEN TokenAnswer(sent, token, "", FALSE, MsgDisabled)
  ELSE TokenAnswer(sent, token, username.s, TRUE, MsgTokenValid)

\* /api/validate_token from token_data.get('username', '') on; sent is the
\* log once an answer has gone out.
ValidateUsername(accounts, log, sent, token, token_data, username) ==
  \* an unhashable username: TypeError
  IF username.t = "dict" THEN TokenRaised(log, token)
  ELSE IF username.t # "str" \/ ~HasKey(accounts, username.s)
    THEN TokenAnswer(sent, token, "", FALSE, MsgNotFound)
  ELSE IF ~Truthy(Get(Item(accounts, username.s), "enabled", JBool(TRUE)))
    THEN TokenAnswer(sent, token, "", FALSE, MsgDisabled)
  ELSE TokenAnswer(sent, token, username.s, TRUE, MsgTokenValid)

\* /api/validate_token from decrypt_data on: token_data is what it returned.
ValidateTokenData(accounts, log, sent, token, token_data) ==
  IF ~Truthy(token_data) THEN TokenAnswer(sent, token, "", FALSE, MsgTokenInvalid)
  \* token_data.get on a payload that is no dict: AttributeError
  ELSE IF token_data.t # "dict" THEN TokenRaised(log, token)
  ELSE ValidateUsername(accounts, log, sent, token, token_data,
                        Get(token_data, "username", JStr("")))

\* do_POST, /api/validate_token: [log, response].
api_validate_token(accounts, log, token, now) ==
  IF Len(token) = 0
    THEN TokenAnswer(send_json(log, now, "/api/validate_token"), token, "", FALSE,
                     MsgTokenEmpty)
    ELSE ValidateTokenData(accounts, log, send_json(log, now, "/api/validate_token"),
                           token, decrypt_data(token))

\* str(v) inside an f-string, for the values a request body carries.
PyStr(v) ==
  IF v.t = "str" THEN v.s
  ELSE IF v.t = "bool" THEN (IF v.s = "true" THEN "True" ELSE "False")
  ELSE IF v.t = "null" THEN "None"
  ELSE "{...}"

\* do_POST ends in an exception before anything is sent: no answer, and the
\* log as it was.
PostRaised(log) == [log |-> log, response |-> Raised("post_verify", "", "")]

\* send_json whose wfile.write fails because the client is gone: send_response
\* has logged the request line, the add_log after send_json is not reached.
PostUnsent(log, now) ==
  [log |-> send_json(log, now, "/api/verify"), response |-> Raised("post_verify", "", "")]

\* do_POST, /api/verify, from data.get('username', '') on: username and
\* password are whatever JSON values the body carries.
PostCredentials(accounts, log, username, password, now) ==
  IF ~Truthy(username) \/ ~Truthy(password) THEN api_verify(accounts, log, "", "", now)
  \* `username not in accounts` on an unhashable username: TypeError
  ELSE IF username.t = "dict" THEN PostRaised(log)
  ELSE IF username.t # "str"
    THEN [log |-> add_log(send_json(log, now, "/api/verify"), now,
                          "verify failed: account " \o PyStr(username) \o " not found"),
          response |-> Result("post_verify", PyStr(username), PyStr(password), FALSE,
                              MsgNotFound)]
  \* hash_password calls password.encode: AttributeError unless it is a str
  ELSE IF password.t # "str" /\ HasKey(accounts, username.s)
          /\ Enabled(Item(accounts, username.s))
    THEN PostRaised(log)
  ELSE api_verify(accounts, log, username.s, PyStr(password), now)

\* do_POST, /api/verify, from the parsed body on: [log, response]; sending is
\* whether the answer can be written to the client.
post_verify(accounts, log, data, now, sending) ==
  \* data.get on a body that is no JSON object: AttributeError
  IF data.t # "dict" THEN PostRaised(log)
  ELSE IF sending # "ok"
          /\ ~PostCredentials(accounts, log, Get(data, "username", JStr("")),
                              Get(data, "password", JStr("")), now).response.raised
    THEN PostUnsent(log, now)
  ELSE PostCredentials(accounts, log, Get(data, "username", JStr("")),
                       Get(data, "password", JStr("")), now)

\* str.strip() on text of printable characters.
Strip(s) ==
  LET kept == {i \in 1..Len(s) : CharAt(s, i) # " "}
  IN  IF kept = {} THEN ""
      ELSE SubSeq(s, CHOOSE i \in kept : \A j \in kept : i <= j,
                     CHOOSE i \in kept : \A j \in kept : j <= i)

\* update_accounts_list(): the rows of accounts_tree.
update_accounts_list(accounts) ==
  [i \in 1..Len(accounts.d) |->
     <<accounts.d[i][1], Get(accounts.d[i][2], "created", JStr("")).s,
       IF Truthy(Get(accounts.d[i][2], "enabled", JBool(TRUE)))
         THEN "enabled" ELSE "disabled">>]

\* ServerApp.add_account: [accounts, file, log, tree, result].
gui_add_account(accounts, file, log, tree, entry, password, salt, now, io) ==
  LET username == Strip(entry)
      keep(msg) == [accounts |-> accounts, file |-> file, log |-> log, tree |-> tree,
                    result |-> Result("gui_add_account", username, password, FALSE, msg)]
  IN
  IF Len(username) = 0 \/ Len(password) = 0 THEN keep(MsgEmpty)
  ELSE IF Len(username) < MinUsernameLen THEN keep(MsgShortName)
  ELSE IF Len(password) < MinPasswordLen THEN keep(MsgShortPass)
  ELSE IF HasKey(accounts, username) THEN keep(MsgExists)
  ELSE LET added == SetItem(accounts, username,
                            Account(salt, hash_password(password, salt), now, TRUE))
       IN  IF io = "ok"
             THEN [accounts |-> added,
                   file     |-> server_save_accounts(added, file, now, io),
                   log      |-> add_log(log, now, "account added: " \o username),
                   tree     |-> update_accounts_list(added),
                   result   |-> Result("gui_add_account", username, password, TRUE,
                                       MsgCreated)]
             ELSE [accounts |-> added,
                   file     |-> server_save_accounts(added, file, now, io),
                   log      |-> log,
                   tree     |-> tree,
                   result   |-> Raised("gui_add_account", username, password)]

\* ServerApp.delete_account: [accounts, file, log, tree, result]; selected is
\* the selected row of accounts_tree, 0 for none; confirm is the answer to
\* askyesno.
gui_delete_account(accounts, file, log, tree, selected, confirm, now, io) ==
  LET keep(name, msg) ==
        [accounts |-> accounts, file |-> file, log |-> log, tree |-> tree,
         result |-> Result("gui_delete_account", name, "", FALSE, msg)]
  IN
  IF selected = 0 THEN keep("", MsgSelectDelete)
  ELSE LET username == tree[selected][1] IN
    IF ~confirm \/ ~HasKey(accounts, username) THEN keep(username, "")
    ELSE LET left == DelItem(accounts, username) IN
      IF io = "ok"
        THEN [accounts |-> left,
              file     |-> server_save_accounts(left, file, now, io),
              log      |-> add_log(log, now, "account deleted: " \o username),
              tree     |-> update_accounts_list(left),
              result   |-> Result("gui_delete_account", username, "", TRUE, MsgDeleted)]
        ELSE [accounts |-> left,
              file     |-> server_save_accounts(left, file, now, io),
              log      |-> log,
              tree     |-> tree,
              result   |-> Raised("gui_delete_account", username, "")]

\* ServerApp.toggle_account: [accounts, file, log, tree, result].
gui_toggle_account(accounts, file, log, tree, selected, now, io) ==
  LET keep(name, msg) ==
        [accounts |-> accounts, file |-> file, log |-> log, tree |-> tree,
         result |-> Result("gui_toggle_account", name, "", FALSE, msg)]
  IN
  IF selected = 0 THEN keep("", MsgSelectFirst)
  ELSE LET username == tree[selected][1] IN
    IF ~HasKey(accounts, username) THEN keep(username, "")
    ELSE LET account == Item(accounts, username)
             flipped == SetItem(accounts, username,
                          SetItem(account, "enabled",
                                  JBool(~Truthy(Get(account, "enabled", JBool(TRUE))))))
         IN
      IF io = "ok"
        THEN [accounts |-> flipped,
              file     |-> server_save_accounts(flipped, file, now, io),
              log      |-> add_log(log, now,
                             "account " \o username \o
                             (IF Enabled(Item(flipped, username))
                                THEN " enabled" ELSE " disabled")),
              tree     |-> update_accounts_list(flipped),
              result   |-> Result("gui_toggle_account", username, "", TRUE, "")]
        ELSE [accounts |-> flipped,
              file     |-> server_save_accounts(flipped, file, now, io),
              log      |-> log,
              tree     |-> tree,
              result   |-> Raised("gui_toggle_account", username, "")]

\* ServerApp.clear_log: server_log after it.
clear_log(log) == <<>>

-----------------------------------------------------------------------------
(* State *)

VARIABLES
  am_accounts,    \* AccountManager.accounts
  am_file,        \* the file AccountManager.accounts_file names
  license_data,   \* LicenseManager.license_data
  license_file,   \* the file LicenseManager.license_file names
  srv_accounts,   \* saveany_server.accounts
  srv_file,       \* the file saveany_server.ACCOUNTS_FILE names
  server_log,     \* saveany_server.server_log
  accounts_tree,  \* the rows ServerApp.accounts_tree shows
  token,          \* the token the client got from its last successful /api/verify
  plain,          \* the payload handed to encrypt_data
  envelope,       \* the envelope string in hand
  altered,        \* whether the envelope was altered after encrypt_data made it
  decrypted,      \* what decrypt_data returned for the envelope
  clock,          \* what datetime.now() reads
  salts_drawn,    \* how many salts generate_salt has handed out
  faults,         \* how many times a file operation failed or a file was damaged
  peer_accounts,  \* accounts of a second AccountManager on the same accounts_file
  writers,        \* where each thread stands in its add_account call
  handler,        \* where the request thread stands in do_POST
  service,        \* ServerApp.running and server, the HTTPServer's flags, the threads
  ret             \* what the last call returned, until its caller takes it

amVars == <<am_accounts, am_file>>
lmVars == <<license_data, license_file>>
srvVars == <<srv_accounts, srv_file, server_log, accounts_tree, token>>
codecVars == <<plain, envelope, altered, decrypted>>
envVars == <<clock, salts_drawn, faults>>
peerVars == <<peer_accounts, writers>>
threadVars == <<handler, service>>
vars == <<amVars, lmVars, srvVars, codecVars, envVars, peerVars, threadVars, ret>>

\* Bounds of the model.
MaxClock == 1
MaxSalts == 2
MaxFaults == 1
MaxLog == 1
MaxPending == 3

KnownUsernames == {"abc", "bob"}
KnownPasswords == {"secret", "passwd"}
\* (username, password) pairs handed to add_account: one for each check it
\* makes, and the pairs it accepts.
AddInputs ==
  {<<"", "secret">>, <<"abc", "">>, <<"ab", "secret">>, <<"abc", "short">>,
   <<"abc", "secret">>, <<"abc", "passwd">>, <<"bob", "secret">>}
LicenseAddInputs == {<<"abc", "secret">>}
\* What is typed into the window's fields; the username field is stripped.
GuiAddInputs ==
  {<<" ", "secret">>, <<"abc", "">>, <<"ab ", "secret">>, <<"abc", "short">>,
   <<" abc ", "secret">>}
VerifyInputs ==
  {<<"", "secret">>, <<"abc", "">>, <<"abc", "secret">>, <<"abc", "passwd">>,
   <<"bob", "secret">>}
\* The machine generate_license runs on, and the machine of a client.
ServerHost == "5e1f"
ClientHost == "c11e"
MachineIds == {ServerHost, ClientHost}

\* The payloads handed to encrypt_data on their own.
CodecPayloads ==
  { EmptyDict,
    TokenPayload("abc", "T0", TRUE),
    JDict(<< <<"k", JNull>> >>),
    StorePayload(JDict(<< <<"abc", JDict(<< <<"enabled", JBool(FALSE)>> >>)>> >>), "T1") }
\* The bytes a byte of an envelope is replaced by.
ReplacementBytes == {Ord("A"), Ord("="), Ord(" ")}

\* generate_salt(): secrets.token_hex never hands out the same salt twice.
generate_salt(drawn) == Chr(Ord("0") + drawn) \o "a"

AM == [accounts |-> am_accounts, file |-> am_file]
LM == [license_data |-> license_data, file |-> license_file]
Now == Stamp(clock)
Idle == ret.op = "none"

\* The request thread between two requests.
NoRequest ==
  [pc |-> "idle", path |-> "", username |-> "", password |-> "", sent |-> <<>>,
   answered |-> FALSE, failed |-> FALSE]

\* The service before start_server: ServerApp.__init__ sets server = None and
\* running = False; no request thread, the window's thread between two
\* callbacks, no client connected.
Stopped ==
  [running |-> FALSE, server |-> FALSE, shutdown_request |-> FALSE,
   is_shut_down |-> FALSE, loop |-> "none", gui |-> "idle", pending |-> 0,
   stops |-> 0, late |-> FALSE]

\* The threads that call add_account at the same time, and the AccountManager
\* each calls: the one of am_accounts or a second one on the same file.
Threads == {"t1", "t2"}
Stores == {"own", "peer"}
\* A thread that has not called add_account.
NotCalling ==
  [pc |-> "idle", store |-> "own", username |-> "", encrypted |-> <<>>,
   ok |-> FALSE, overlapped |-> FALSE]

\* A file operation may fail while the model's budget of faults lasts.
MayBe(io) == io = "ok" \/ faults < MaxFaults
Fault(io) == IF io = "ok" THEN faults ELSE faults + 1

Init ==
  /\ am_accounts = EmptyDict
  /\ am_file = NoFile
  /\ license_data = JNull
  /\ license_file = NoFile
  /\ srv_accounts = EmptyDict
  /\ srv_file = NoFile
  /\ server_log = <<>>
  /\ accounts_tree = <<>>
  /\ token = <<>>
  /\ plain = JNull
  /\ envelope = <<>>
  /\ altered = FALSE
  /\ decrypted = JNull
  /\ clock = 0
  /\ salts_drawn = 0
  /\ faults = 0
  /\ peer_accounts = EmptyDict
  /\ writers = [t \in Threads |-> NotCalling]
  /\ handler = NoRequest
  /\ service = Stopped
  /\ ret = NoCall

\* The caller takes the result of its call.
Return ==
  /\ ~Idle
  /\ ret' = NoCall
  /\ UNCHANGED <<peerVars, threadVars, amVars, lmVars, srvVars, codecVars, envVars>>

\* Time passes.
Tick ==
  /\ Idle
  /\ clock < MaxClock
  /\ clock' = clock + 1
  /\ UNCHANGED <<peerVars, threadVars, amVars, lmVars, srvVars, codecVars, salts_drawn, faults, ret>>

-----------------------------------------------------------------------------
(* The envelope codec on its own *)

Encrypt(data) ==
  /\ Idle /\ envelope = <<>>
  /\ plain' = data
  /\ envelope' = encrypt_data(data)
  /\ altered' = FALSE
  /\ decrypted' = JNull
  /\ ret' = Result("encrypt_data", "", "", TRUE, "")
  /\ UNCHANGED <<peerVars, threadVars, amVars, lmVars, srvVars, envVars>>

\* One bit of one character of the envelope changes.
FlipBit(i, bit) ==
  /\ ret.op = "encrypt_data"
  /\ envelope' = [envelope EXCEPT ![i] = Xor8(@, 2 ^ bit)]
  /\ altered' = TRUE
  /\ ret' = Result("flip_bit", "", "", TRUE, "")
  /\ UNCHANGED <<peerVars, threadVars, plain, decrypted, amVars, lmVars, srvVars, envVars>>

\* One character of the envelope is replaced by another.
ReplaceByte(i, b) ==
  /\ ret.op = "encrypt_data"
  /\ envelope[i] # b
  /\ envelope' = [envelope EXCEPT ![i] = b]
  /\ altered' = TRUE
  /\ ret' = Result("replace_byte", "", "", TRUE, "")
  /\ UNCHANGED <<peerVars, threadVars, plain, decrypted, amVars, lmVars, srvVars, envVars>>

Decrypt ==
  /\ ret.op \in {"encrypt_data", "flip_bit", "replace_byte"}
  /\ \E data \in {decrypt_data(envelope)} :
       /\ decrypted' = data
       /\ ret' = Result("decrypt_data", "", "", data # JNull, "")
  /\ UNCHANGED <<peerVars, threadVars, plain, envelope, altered, amVars, lmVars, srvVars, envVars>>

CodecNext ==
  \/ \E data \in CodecPayloads : Encrypt(data)
  \/ \E i \in 1..Len(envelope), bit \in 0..7 : FlipBit(i, bit)
  \/ \E i \in 1..Len(envelope), b \in ReplacementBytes : ReplaceByte(i, b)
  \/ Decrypt

SpecCodec == Init /\ [][CodecNext]_vars

-----------------------------------------------------------------------------
(* The calls on an AccountManager *)

\* AccountManager(accounts_file): __init__ sets accounts = {} and loads.
NewAccountManager(io) ==
  /\ Idle /\ MayBe(io)
  /\ io = "ok" \/ am_file.exists
  /\ am_accounts' = load_accounts([accounts |-> EmptyDict, file |-> am_file], io)
  /\ faults' = Fault(io)
  /\ ret' = Result("__init__", "", "", TRUE, "")
  /\ UNCHANGED <<peerVars, threadVars, am_file, lmVars, srvVars, codecVars, clock, salts_drawn>>

LoadAccounts(io) ==
  /\ Idle /\ MayBe(io)
  /\ io = "ok" \/ am_file.exists
  /\ am_accounts' = load_accounts(AM, io)
  /\ faults' = Fault(io)
  /\ ret' = Result("load_accounts", "", "", TRUE, "")
  /\ UNCHANGED <<peerVars, threadVars, am_file, lmVars, srvVars, codecVars, clock, salts_drawn>>

AddAccount(username, password, io) ==
  /\ Idle /\ MayBe(io)
  /\ salts_drawn < MaxSalts
  /\ \E r \in {add_account(AM, username, password, generate_salt(salts_drawn), Now, io)} :
       /\ am_accounts' = r.accounts
       /\ am_file' = r.file
       /\ ret' = r.result
       \* the salt is drawn, and the file written, once the checks passed
       /\ salts_drawn' = IF r.accounts # am_accounts THEN salts_drawn + 1 ELSE salts_drawn
       /\ IF r.accounts # am_accounts THEN faults' = Fault(io)
                                      ELSE io = "ok" /\ faults' = faults
  /\ UNCHANGED <<peerVars, threadVars, lmVars, srvVars, codecVars, clock>>

\* delete_account that also revokes the license a LicenseManager holds.
DeleteAccountRevoking(username, io) ==
  /\ Idle /\ MayBe(io)
  /\ \E r \in {delete_account(AM, username, Now, io)} :
       /\ am_accounts' = r.accounts
       /\ am_file' = r.file
       /\ ret' = r.result
       /\ license_data' = IF r.accounts # am_accounts THEN JNull ELSE license_data
       /\ IF r.accounts # am_accounts THEN faults' = Fault(io)
                                      ELSE io = "ok" /\ faults' = faults
  /\ UNCHANGED <<peerVars, threadVars, license_file, srvVars, codecVars, clock, salts_drawn>>

DeleteAccount(username, io) ==
  /\ Idle /\ MayBe(io)
  /\ \E r \in {delete_account(AM, username, Now, io)} :
       /\ am_accounts' = r.accounts
       /\ am_file' = r.file
       /\ ret' = r.result
       /\ IF r.accounts # am_accounts THEN faults' = Fault(io)
                                      ELSE io = "ok" /\ faults' = faults
  /\ UNCHANGED <<peerVars, threadVars, lmVars, srvVars, codecVars, clock, salts_drawn>>

ToggleAccount(username, io) ==
  /\ Idle /\ MayBe(io)
  /\ \E r \in {toggle_account(AM, username, Now, io)} :
       /\ am_accounts' = r.accounts
       /\ am_file' = r.file
       /\ ret' = r.result
       /\ IF r.accounts # am_accounts THEN faults' = Fault(io)
                                      ELSE io = "ok" /\ faults' = faults
  /\ UNCHANGED <<peerVars, threadVars, lmVars, srvVars, codecVars, clock, salts_drawn>>

VerifyAccount(username, password) ==
  /\ Idle
  /\ ret' = verify_account(AM, username, password)
  /\ UNCHANGED <<peerVars, threadVars, amVars, lmVars, srvVars, codecVars, envVars>>

\* generate_license(username, password), called by someone who wants the
\* license for the machine machineId: the call has no parameter for it.
GenerateLicense(username, password, machineId) ==
  /\ Idle
  /\ ret' = [generate_license(AM, username, password, Now, ServerHost)
               EXCEPT !.wanted = machineId]
  /\ UNCHANGED <<peerVars, threadVars, amVars, lmVars, srvVars, codecVars, envVars>>

\* Someone deletes accounts.dat.
RemoveAccountsFile ==
  /\ Idle /\ faults < MaxFaults
  /\ am_file.exists
  /\ am_file' = NoFile
  /\ faults' = faults + 1
  /\ UNCHANGED <<peerVars, threadVars, am_accounts, lmVars, srvVars, codecVars, clock, salts_drawn, ret>>

\* Something damages accounts.dat: a bit of its first character changes.
CorruptAccountsFile ==
  /\ Idle /\ faults < MaxFaults
  /\ am_file.exists /\ Len(am_file.text) > 0
  /\ am_file' = FileOf([am_file.text EXCEPT ![1] = Xor8(@, 1)])
  /\ faults' = faults + 1
  /\ UNCHANGED <<peerVars, threadVars, am_accounts, lmVars, srvVars, codecVars, clock, salts_drawn, ret>>

StoreNext ==
  \/ \E io \in ReadOutcomes : NewAccountManager(io)
  \/ \E io \in ReadOutcomes : LoadAccounts(io)
  \/ \E input \in AddInputs, io \in WriteOutcomes : AddAccount(input[1], input[2], io)
  \/ \E username \in KnownUsernames, io \in WriteOutcomes : DeleteAccount(username, io)
  \/ \E username \in KnownUsernames, io \in WriteOutcomes : ToggleAccount(username, io)
  \/ \E username \in KnownUsernames, password \in KnownPasswords :
       VerifyAccount(username, password)
  \/ \E username \in KnownUsernames, password \in KnownPasswords,
          machineId \in MachineIds :
       GenerateLicense(username, password, machineId)
  \/ Return
  \/ Tick
  \/ RemoveAccountsFile
  \/ CorruptAccountsFile

SpecStore == Init /\ [][StoreNext]_vars

-----------------------------------------------------------------------------
(* add_account called from two threads: its statements as steps *)

AccountsOf(store) == IF store = "own" THEN am_accounts ELSE peer_accounts

InFlight(t) == writers[t].pc \in {"added", "encoded", "written"}

\* A second AccountManager(accounts_file) is made, before any thread calls
\* it: __init__ loads the file.
OpenPeer ==
  /\ \A t \in Threads : writers[t].pc = "idle" \/ writers[t].store = "own"
  /\ am_file.exists
  /\ peer_accounts' = load_accounts([accounts |-> EmptyDict, file |-> am_file], "ok")
  /\ UNCHANGED <<threadVars, amVars, lmVars, srvVars, codecVars, envVars, writers, ret>>

\* add_account up to self.accounts[username] = {...}: the checks, the salt, the
\* hash and the new entry.
AddEnter(t, store, username, password) ==
  /\ Idle
  /\ writers[t].pc = "idle"
  /\ \A o \in Threads : writers[o].username # username
  /\ salts_drawn < MaxSalts
  /\ \E r \in {add_account([accounts |-> AccountsOf(store), file |-> am_file], username,
                           password, generate_salt(salts_drawn), Now, "ok")} :
       /\ IF store = "own"
            THEN am_accounts' = r.accounts /\ UNCHANGED peer_accounts
            ELSE peer_accounts' = r.accounts /\ UNCHANGED am_accounts
       /\ writers' = [writers EXCEPT ![t] =
            [pc |-> IF r.result.ok THEN "added" ELSE "returned",
             store |-> store, username |-> username, encrypted |-> <<>>,
             ok |-> FALSE,
             overlapped |-> \E o \in Threads : InFlight(o)]]
       /\ salts_drawn' = IF r.result.ok THEN salts_drawn + 1 ELSE salts_drawn
  /\ UNCHANGED <<threadVars, am_file, lmVars, srvVars, codecVars, clock, faults, ret>>

\* save_accounts: data = {...} and encrypt_data(data), of the accounts as they
\* are when json.dumps reads them.
AddEncode(t) ==
  /\ writers[t].pc = "added"
  /\ writers' = [writers EXCEPT ![t].pc = "encoded",
       ![t].encrypted = encrypt_data(StorePayload(AccountsOf(writers[t].store), Now))]
  /\ UNCHANGED <<threadVars, amVars, peer_accounts, lmVars, srvVars, codecVars, envVars, ret>>

\* save_accounts: open(self.accounts_file, 'w') and f.write(encrypted).
AddWrite(t) ==
  /\ writers[t].pc = "encoded"
  /\ am_file' = WriteFile(am_file, writers[t].encrypted, "ok")
  /\ writers' = [writers EXCEPT ![t].pc = "written"]
  /\ UNCHANGED <<threadVars, am_accounts, peer_accounts, lmVars, srvVars, codecVars, envVars, ret>>

\* add_account: return True, ...
AddLeave(t) ==
  /\ writers[t].pc = "written"
  /\ writers' = [writers EXCEPT ![t].pc = "returned", ![t].ok = TRUE]
  /\ UNCHANGED <<threadVars, amVars, peer_accounts, lmVars, srvVars, codecVars, envVars, ret>>

ThreadsNext ==
  \/ OpenPeer
  \/ \E t \in Threads, store \in Stores, username \in KnownUsernames,
        password \in KnownPasswords :
       AddEnter(t, store, username, password)
  \/ \E t \in Threads : AddEncode(t)
  \/ \E t \in Threads : AddWrite(t)
  \/ \E t \in Threads : AddLeave(t)
  \/ Tick

SpecThreads == Init /\ [][ThreadsNext]_vars

-----------------------------------------------------------------------------
(* The calls on a LicenseManager *)

\* LicenseManager(license_file): __init__ sets license_data = None and loads.
NewLicenseManager(io) ==
  /\ Idle /\ MayBe(io)
  /\ io = "ok" \/ license_file.exists
  /\ \E r \in {load_license([license_data |-> JNull, file |-> license_file], io)} :
       license_data' = r.license_data
  /\ faults' = Fault(io)
  /\ ret' = Result("LicenseManager", "", "", TRUE, "")
  /\ UNCHANGED <<peerVars, threadVars, license_file, amVars, srvVars, codecVars, clock, salts_drawn>>

\* load_license(), called on its own or right after save_license.
LoadLicense(io) ==
  /\ Idle \/ ret.op = "save_license"
  /\ MayBe(io)
  /\ io = "ok" \/ license_file.exists
  /\ \E r \in {load_license(LM, io)} :
       /\ license_data' = r.license_data
       /\ ret' = r.result
  /\ faults' = Fault(io)
  /\ UNCHANGED <<peerVars, threadVars, license_file, amVars, srvVars, codecVars, clock, salts_drawn>>

\* The texts handed to create_license_from_login as account data and to
\* save_license as license content: the content of the AccountManager's file,
\* a text that is no envelope, the envelope of an empty payload, the envelope
\* of a token.
SnapshotKinds == {"store", "text", "empty_payload", "token"}
Snapshot(kind) ==
  IF kind = "store" THEN am_file.text
  ELSE IF kind = "text" THEN Utf8Encode("x")
  ELSE IF kind = "empty_payload" THEN encrypt_data(EmptyDict)
  ELSE encrypt_data(TokenPayload("abc", "T0", TRUE))

\* save_license(s) for a text that is no license; ret.wanted keeps which.
LicenseTextKinds == {"text", "empty_payload"}
SaveLicenseText(kind, io) ==
  /\ Idle /\ MayBe(io)
  /\ \E r \in {save_license(LM, Snapshot(kind), io)} :
       /\ license_file' = r.file
       /\ ret' = [r.result EXCEPT !.wanted = kind]
  /\ faults' = Fault(io)
  /\ UNCHANGED <<peerVars, threadVars, license_data, amVars, srvVars, codecVars, clock, salts_drawn>>

\* create_license_from_login on the client's machine; ret.wanted keeps which
\* account data was handed over.
CreateLicenseFromLogin(username, password, kind, io) ==
  /\ Idle /\ MayBe(io)
  /\ kind = "store" => am_file.exists
  /\ \E r \in {create_license_from_login(LM, username, password, Snapshot(kind),
                                          Now, ClientHost, io)} :
       /\ license_data' = r.license_data
       /\ license_file' = r.file
       /\ ret' = [r.result EXCEPT !.wanted = kind]
       \* the file is written once the checks passed
       /\ IF r.result.msg \in {MsgLicensed, MsgSaveFailed}
            THEN faults' = Fault(io)
            ELSE io = "ok" /\ faults' = faults
  /\ UNCHANGED <<peerVars, threadVars, amVars, srvVars, codecVars, clock, salts_drawn>>

\* The license content generate_license just returned is saved.
SaveLicense(io) ==
  /\ ret.op = "generate_license" /\ ret.ok
  /\ MayBe(io)
  /\ \E r \in {save_license(LM, ret.out, io)} :
       /\ license_file' = r.file
       /\ ret' = [r.result EXCEPT !.wanted = "generated"]
  /\ faults' = Fault(io)
  /\ UNCHANGED <<peerVars, threadVars, license_data, amVars, srvVars, codecVars, clock, salts_drawn>>

IsLicensed ==
  /\ Idle
  /\ ret' = Result("is_licensed", "", "", is_licensed(LM), "")
  /\ UNCHANGED <<peerVars, threadVars, amVars, lmVars, srvVars, codecVars, envVars>>

GetUsername ==
  /\ Idle
  /\ ret' = Result("get_username", get_username(LM), "", TRUE, "")
  /\ UNCHANGED <<peerVars, threadVars, amVars, lmVars, srvVars, codecVars, envVars>>

VerifyOffline(username, password) ==
  /\ Idle
  /\ ret' = verify_offline(LM, username, password)
  /\ UNCHANGED <<peerVars, threadVars, amVars, lmVars, srvVars, codecVars, envVars>>

\* Someone deletes license.dat.
RemoveLicenseFile ==
  /\ Idle /\ faults < MaxFaults
  /\ license_file.exists
  /\ license_file' = NoFile
  /\ faults' = faults + 1
  /\ UNCHANGED <<peerVars, threadVars, license_data, amVars, srvVars, codecVars, clock, salts_drawn, ret>>

\* Something damages license.dat: a bit of its first character changes.
CorruptLicenseFile ==
  /\ Idle /\ faults < MaxFaults
  /\ license_file.exists /\ Len(license_file.text) > 0
  /\ license_file' = FileOf([license_file.text EXCEPT ![1] = Xor8(@, 1)])
  /\ faults' = faults + 1
  /\ UNCHANGED <<peerVars, threadVars, license_data, amVars, srvVars, codecVars, clock, salts_drawn, ret>>

LicenseNext ==
  \/ \E input \in LicenseAddInputs : AddAccount(input[1], input[2], "ok")
  \/ \E username \in KnownUsernames : ToggleAccount(username, "ok")
  \/ \E username \in KnownUsernames : DeleteAccount(username, "ok")
  \/ \E username \in KnownUsernames, password \in KnownPasswords,
          machineId \in MachineIds :
       GenerateLicense(username, password, machineId)
  \/ \E io \in ReadOutcomes : NewLicenseManager(io)
  \/ \E io \in ReadOutcomes : LoadLicense(io)
  \/ \E io \in WriteOutcomes : SaveLicense(io)
  \/ \E kind \in LicenseTextKinds : SaveLicenseText(kind, "ok")
  \/ \E username \in KnownUsernames, password \in KnownPasswords,
          kind \in SnapshotKinds, io \in WriteOutcomes :
       CreateLicenseFromLogin(username, password, kind, io)
  \/ IsLicensed
  \/ GetUsername
  \/ \E username \in KnownUsernames, password \in KnownPasswords :
       VerifyOffline(username, password)
  \/ Return
  \/ RemoveLicenseFile
  \/ CorruptLicenseFile

SpecLicense == Init /\ [][LicenseNext]_vars

-----------------------------------------------------------------------------
(* The server: its window and its HTTP handlers *)

\* The token a client presents to /api/validate_token.
PresentedToken(kind) ==
  CASE kind = "held"          -> token
    [] kind = "garbage"       -> Utf8Encode("not-a-token")
    [] kind = "flagged"       -> encrypt_data(TokenPayload("abc", Stamp(0), FALSE))
    [] kind = "empty_payload" -> encrypt_data(EmptyDict)
    [] kind = "text_payload"  -> encrypt_data(JStr("abc"))
    \* the license generate_license makes of the server's accounts for abc
    [] kind = "license"       ->
         generate_license([accounts |-> srv_accounts, file |-> srv_file], "abc",
                          "secret", Now, ServerHost).out
    \* the text of the server's accounts.dat
    [] kind = "store"         -> srv_file.text
TokenKinds ==
  {"held", "garbage", "flagged", "empty_payload", "text_payload", "license", "store"}

\* The server process starts: the globals are fresh, ServerApp.__init__ loads
\* the accounts and fills the list.
ServerStart(io) ==
  /\ Idle /\ MayBe(io)
  /\ io = "ok" \/ srv_file.exists
  /\ \E loaded \in {server_load_accounts(srv_file, io)} :
       /\ srv_accounts' = loaded
       /\ accounts_tree' = update_accounts_list(loaded)
  /\ server_log' = <<>>
  /\ faults' = Fault(io)
  /\ ret' = Result("ServerApp", "", "", TRUE, "")
  /\ UNCHANGED <<peerVars, threadVars, srv_file, token, amVars, lmVars, codecVars, clock, salts_drawn>>

GuiAddAccount(entry, password, io) ==
  /\ Idle /\ MayBe(io)
  /\ Len(server_log) < MaxLog
  /\ salts_drawn < MaxSalts
  /\ \E r \in {gui_add_account(srv_accounts, srv_file, server_log, accounts_tree, entry,
                               password, generate_salt(salts_drawn), Now, io)} :
       /\ srv_accounts' = r.accounts
       /\ srv_file' = r.file
       /\ server_log' = r.log
       /\ accounts_tree' = r.tree
       /\ ret' = r.result
       /\ salts_drawn' = IF r.accounts # srv_accounts THEN salts_drawn + 1 ELSE salts_drawn
       /\ IF r.accounts # srv_accounts THEN faults' = Fault(io)
                                       ELSE io = "ok" /\ faults' = faults
  /\ UNCHANGED <<peerVars, threadVars, token, amVars, lmVars, codecVars, clock>>

GuiDeleteAccount(selected, confirm, io) ==
  /\ Idle /\ MayBe(io)
  /\ Len(server_log) < MaxLog
  /\ \E r \in {gui_delete_account(srv_accounts, srv_file, server_log, accounts_tree,
                                  selected, confirm, Now, io)} :
       /\ srv_accounts' = r.accounts
       /\ srv_file' = r.file
       /\ server_log' = r.log
       /\ accounts_tree' = r.tree
       /\ ret' = r.result
       /\ IF r.accounts # srv_accounts THEN faults' = Fault(io)
                                       ELSE io = "ok" /\ faults' = faults
  /\ UNCHANGED <<peerVars, threadVars, token, amVars, lmVars, codecVars, clock, salts_drawn>>

GuiToggleAccount(selected, io) ==
  /\ Idle /\ MayBe(io)
  /\ Len(server_log) < MaxLog
  /\ \E r \in {gui_toggle_account(srv_accounts, srv_file, server_log, accounts_tree,
                                  selected, Now, io)} :
       /\ srv_accounts' = r.accounts
       /\ srv_file' = r.file
       /\ server_log' = r.log
       /\ accounts_tree' = r.tree
       /\ ret' = r.result
       /\ IF r.accounts # srv_accounts THEN faults' = Fault(io)
                                       ELSE io = "ok" /\ faults' = faults
  /\ UNCHANGED <<peerVars, threadVars, token, amVars, lmVars, codecVars, clock, salts_drawn>>

ClearLog ==
  /\ Idle
  /\ server_log # <<>>
  /\ server_log' = clear_log(server_log)
  /\ UNCHANGED <<peerVars, threadVars, srv_accounts, srv_file, accounts_tree, token, amVars, lmVars, codecVars,
                 envVars, ret>>

\* POST /api/verify; the client keeps the token of a successful answer.
ApiVerify(username, password) ==
  /\ Idle
  /\ Len(server_log) < MaxLog
  /\ \E r \in {api_verify(srv_accounts, server_log, username, password, Now)} :
       /\ server_log' = r.log
       /\ ret' = r.response
       /\ token' = IF r.response.ok THEN r.response.out ELSE token
  /\ UNCHANGED <<peerVars, threadVars, srv_accounts, srv_file, accounts_tree, amVars, lmVars, codecVars, envVars>>

\* The bodies a client may post to /api/verify: JSON that is no object, an
\* object without the fields, and objects whose fields are not all strings.
PostBodies ==
  {JStr("abc"), EmptyDict,
   JDict(<< <<"username", JStr("abc")>>, <<"password", JStr("secret")>> >>),
   JDict(<< <<"username", JDict(<< <<"a", JStr("b")>> >>)>>,
            <<"password", JStr("secret")>> >>),
   JDict(<< <<"username", JBool(TRUE)>>, <<"password", JStr("secret")>> >>),
   JDict(<< <<"username", JStr("abc")>>, <<"password", JBool(TRUE)>> >>)}
SendOutcomes == {"ok", "send_fails"}

\* POST /api/verify with any JSON body, to a client that may be gone when the
\* answer is written.
PostVerify(data, sending) ==
  /\ Idle /\ MayBe(sending)
  /\ Len(server_log) < MaxLog
  /\ \E r \in {post_verify(srv_accounts, server_log, data, Now, sending)} :
       /\ server_log' = r.log
       /\ ret' = r.response
       /\ token' = IF r.response.ok THEN r.response.out ELSE token
       /\ IF r.response.raised /\ r.log = server_log
            THEN sending = "ok" /\ faults' = faults
            ELSE faults' = Fault(sending)
  /\ UNCHANGED <<peerVars, threadVars, srv_accounts, srv_file, accounts_tree, amVars, lmVars, codecVars,
                 clock, salts_drawn>>

\* POST /api/validate_token.
ApiValidateToken(kind) ==
  /\ Idle
  /\ Len(server_log) < MaxLog
  /\ \E r \in {api_validate_token(srv_accounts, server_log, PresentedToken(kind), Now)} :
       /\ server_log' = r.log
       /\ ret' = r.response
  /\ UNCHANGED <<peerVars, threadVars, srv_accounts, srv_file, accounts_tree, token, amVars, lmVars, codecVars,
                 envVars>>

\* Someone deletes the server's accounts.dat.
RemoveServerFile ==
  /\ Idle /\ faults < MaxFaults
  /\ srv_file.exists
  /\ srv_file' = NoFile
  /\ faults' = faults + 1
  /\ UNCHANGED <<peerVars, threadVars, srv_accounts, server_log, accounts_tree, token, amVars, lmVars, codecVars,
                 clock, salts_drawn, ret>>

\* Something damages the server's accounts.dat.
CorruptServerFile ==
  /\ Idle /\ faults < MaxFaults
  /\ srv_file.exists /\ Len(srv_file.text) > 0
  /\ srv_file' = FileOf([srv_file.text EXCEPT ![1] = Xor8(@, 1)])
  /\ faults' = faults + 1
  /\ UNCHANGED <<peerVars, threadVars, srv_accounts, server_log, accounts_tree, token, amVars, lmVars, codecVars,
                 clock, salts_drawn, ret>>

ServerNext ==
  \/ \E io \in ReadOutcomes : ServerStart(io)
  \/ \E input \in GuiAddInputs, io \in WriteOutcomes : GuiAddAccount(input[1], input[2], io)
  \/ \E selected \in 0..Len(accounts_tree), confirm \in BOOLEAN, io \in WriteOutcomes :
       GuiDeleteAccount(selected, confirm, io)
  \/ \E selected \in 0..Len(accounts_tree), io \in WriteOutcomes :
       GuiToggleAccount(selected, io)
  \/ ClearLog
  \/ \E input \in VerifyInputs : ApiVerify(input[1], input[2])
  \/ \E data \in PostBodies, sending \in SendOutcomes : PostVerify(data, sending)
  \/ \E kind \in TokenKinds : ApiValidateToken(kind)
  \/ Return
  \/ Tick
  \/ RemoveServerFile
  \/ CorruptServerFile

SpecServer == Init /\ [][ServerNext]_vars

-----------------------------------------------------------------------------
(* do_POST on the request thread while the window's thread changes accounts *)

\* The username do_POST tests with `username not in accounts`: the posted one
\* for /api/verify, the one in the token for /api/validate_token ("" where the
\* handler ends before the test).
TestedName(path, username, password, sent) ==
  IF path = "/api/verify"
    THEN (IF Len(password) = 0 THEN "" ELSE username)
  ELSE IF Len(sent) = 0 \/ ~Truthy(decrypt_data(sent)) \/ decrypt_data(sent).t # "dict"
    THEN ""
  ELSE IF Get(decrypt_data(sent), "username", JStr("")).t # "str" THEN ""
  ELSE Get(decrypt_data(sent), "username", JStr("")).s

\* do_POST run to its end on the accounts as they are: [log, response].
Handled(h) ==
  IF h.path = "/api/verify"
    THEN api_verify(srv_accounts, server_log, h.username, h.password, Now)
    ELSE api_validate_token(srv_accounts, server_log, h.sent, Now)

\* do_POST up to and including the test `username not in accounts`; the
\* request is answered here unless the username is found.
HandlerTest(path, username, password, sent) ==
  /\ handler.pc = "idle"
  /\ Len(server_log) < MaxLog
  /\ \E name \in {TestedName(path, username, password, sent)} :
     \E h \in {[pc |-> "found", path |-> path, username |-> username,
                password |-> password, sent |-> sent, answered |-> FALSE,
                failed |-> FALSE]} :
       IF Len(name) > 0 /\ HasKey(srv_accounts, name)
         THEN /\ handler' = [h EXCEPT !.username = name]
              /\ UNCHANGED <<server_log, token>>
         ELSE /\ handler' = [h EXCEPT !.pc = "done",
                                      !.answered = ~Handled(h).response.raised]
              /\ server_log' = Handled(h).log
              /\ UNCHANGED token
  /\ UNCHANGED <<srv_accounts, srv_file, accounts_tree, amVars, lmVars, codecVars, envVars,
                 peerVars, service, ret>>

\* do_POST from accounts[username] on: KeyError when the account has gone
\* since the test.
HandlerIndex ==
  /\ handler.pc = "found"
  /\ IF ~HasKey(srv_accounts, handler.username)
       THEN /\ handler' = [handler EXCEPT !.pc = "done", !.failed = TRUE]
            /\ UNCHANGED <<server_log, token>>
       ELSE /\ handler' = [handler EXCEPT !.pc = "done", !.answered = TRUE]
            /\ server_log' = Handled(handler).log
            /\ token' = IF handler.path = "/api/verify" /\ Handled(handler).response.ok
                          THEN Handled(handler).response.out ELSE token
  /\ UNCHANGED <<srv_accounts, srv_file, accounts_tree, amVars, lmVars, codecVars, envVars,
                 peerVars, service, ret>>

\* The request thread is back in handle_request.
HandlerNext ==
  /\ handler.pc = "done"
  /\ handler' = NoRequest
  /\ UNCHANGED <<amVars, lmVars, srvVars, codecVars, envVars, peerVars, service, ret>>

RaceNext ==
  \/ \E input \in GuiAddInputs : GuiAddAccount(input[1], input[2], "ok")
  \/ \E selected \in 0..Len(accounts_tree), confirm \in BOOLEAN :
       GuiDeleteAccount(selected, confirm, "ok")
  \/ \E selected \in 0..Len(accounts_tree) : GuiToggleAccount(selected, "ok")
  \/ ClearLog
  \/ Return
  \/ \E input \in VerifyInputs : HandlerTest("/api/verify", input[1], input[2], <<>>)
  \/ \E kind \in TokenKinds :
       HandlerTest("/api/validate_token", "", "", PresentedToken(kind))
  \/ HandlerIndex
  \/ HandlerNext

SpecRace == Init /\ [][RaceNext]_vars

-----------------------------------------------------------------------------
(* AccountManager and the server's store side by side: the same calls on both,
   each on its own copy of the same file *)

\* The row of accounts_tree that shows username, 0 when none does.
RowOf(username) ==
  IF \E i \in 1..Len(accounts_tree) : accounts_tree[i][1] = username
    THEN CHOOSE i \in 1..Len(accounts_tree) : accounts_tree[i][1] = username
    ELSE 0

\* load_accounts on both.
TwinLoad(io) ==
  /\ Idle /\ MayBe(io)
  /\ io = "ok" \/ am_file.exists \/ srv_file.exists
  /\ am_accounts' = load_accounts(AM, io)
  /\ srv_accounts' = server_load_accounts(srv_file, io)
  /\ accounts_tree' = update_accounts_list(srv_accounts')
  /\ faults' = Fault(io)
  /\ ret' = Result("load_accounts", "", "", TRUE, "")
  /\ UNCHANGED <<am_file, srv_file, server_log, token, lmVars, codecVars, clock, salts_drawn,
                 peerVars, threadVars>>

\* add_account on both, with the same salt.
TwinAdd(username, password, io) ==
  /\ Idle /\ MayBe(io)
  /\ Len(server_log) < MaxLog
  /\ salts_drawn < MaxSalts
  /\ \E r \in {add_account(AM, username, password, generate_salt(salts_drawn), Now, io)} :
     \E g \in {gui_add_account(srv_accounts, srv_file, server_log, accounts_tree, username,
                               password, generate_salt(salts_drawn), Now, io)} :
       /\ am_accounts' = r.accounts /\ am_file' = r.file
       /\ srv_accounts' = g.accounts /\ srv_file' = g.file
       /\ server_log' = g.log /\ accounts_tree' = g.tree
       /\ ret' = r.result
       /\ salts_drawn' = IF r.accounts # am_accounts \/ g.accounts # srv_accounts
                           THEN salts_drawn + 1 ELSE salts_drawn
       /\ IF r.accounts # am_accounts \/ g.accounts # srv_accounts
            THEN faults' = Fault(io)
            ELSE io = "ok" /\ faults' = faults
  /\ UNCHANGED <<token, lmVars, codecVars, clock, peerVars, threadVars>>

\* delete_account on both: the operator selects the row of username and
\* confirms.
TwinDelete(username, io) ==
  /\ Idle /\ MayBe(io)
  /\ Len(server_log) < MaxLog
  /\ \E r \in {delete_account(AM, username, Now, io)} :
     \E g \in {gui_delete_account(srv_accounts, srv_file, server_log, accounts_tree,
                                  RowOf(username), TRUE, Now, io)} :
       /\ am_accounts' = r.accounts /\ am_file' = r.file
       /\ srv_accounts' = g.accounts /\ srv_file' = g.file
       /\ server_log' = g.log /\ accounts_tree' = g.tree
       /\ ret' = r.result
       /\ IF r.accounts # am_accounts \/ g.accounts # srv_accounts
            THEN faults' = Fault(io)
            ELSE io = "ok" /\ faults' = faults
  /\ UNCHANGED <<token, lmVars, codecVars, clock, salts_drawn, peerVars, threadVars>>

\* toggle_account on both.
TwinToggle(username, io) ==
  /\ Idle /\ MayBe(io)
  /\ Len(server_log) < MaxLog
  /\ \E r \in {toggle_account(AM, username, Now, io)} :
     \E g \in {gui_toggle_account(srv_accounts, srv_file, server_log, accounts_tree,
                                  RowOf(username), Now, io)} :
       /\ am_accounts' = r.accounts /\ am_file' = r.file
       /\ srv_accounts' = g.accounts /\ srv_file' = g.file
       /\ server_log' = g.log /\ accounts_tree' = g.tree
       /\ ret' = r.result
       /\ IF r.accounts # am_accounts \/ g.accounts # srv_accounts
            THEN faults' = Fault(io)
            ELSE io = "ok" /\ faults' = faults
  /\ UNCHANGED <<token, lmVars, codecVars, clock, salts_drawn, peerVars, threadVars>>

\* Someone deletes both copies of accounts.dat.
TwinRemoveFile ==
  /\ Idle /\ faults < MaxFaults
  /\ am_file.exists \/ srv_file.exists
  /\ am_file' = NoFile /\ srv_file' = NoFile
  /\ faults' = faults + 1
  /\ UNCHANGED <<am_accounts, srv_accounts, server_log, accounts_tree, token, lmVars,
                 codecVars, clock, salts_drawn, peerVars, threadVars, ret>>

TwinInputs ==
  {<<"abc", "secret">>, <<"bob", "secret">>, <<"ab", "secret">>, <<"abc", "">>}

TwinNext ==
  \/ \E io \in ReadOutcomes : TwinLoad(io)
  \/ \E input \in TwinInputs, io \in WriteOutcomes : TwinAdd(input[1], input[2], io)
  \/ \E username \in KnownUsernames, io \in WriteOutcomes : TwinDelete(username, io)
  \/ \E username \in KnownUsernames, io \in WriteOutcomes : TwinToggle(username, io)
  \/ TwinRemoveFile
  \/ ClearLog
  \/ Return
  \/ Tick

SpecTwin == Init /\ [][TwinNext]_vars

-----------------------------------------------------------------------------
(* The server's log on its own: add_log and clear_log, as often as one likes *)

\* The message of the call of add_log made when the log holds n entries.
LogMessage(n) == "m" \o Chr(Ord("0") + (n % 10))

\* Some caller calls add_log.
LogAppend ==
  /\ server_log' = add_log(server_log, Now, LogMessage(Len(server_log)))
  /\ UNCHANGED <<srv_accounts, srv_file, accounts_tree, token, amVars, lmVars, codecVars,
                 envVars, peerVars, threadVars, ret>>

LogNext ==
  \/ LogAppend
  \/ ClearLog

SpecLog == Init /\ [][LogNext]_vars

-----------------------------------------------------------------------------
(* start_server, run_server and stop_server: the window's thread, the request
   thread and the HTTPServer between them *)

\* start_server up to self.server_thread.start(): the HTTPServer is made (its
\* __shutdown_request is False, its __is_shut_down event is not set), running
\* is True and run_server begins on its own thread.
StartServer ==
  /\ service.gui = "idle" /\ ~service.server
  /\ Len(server_log) < MaxLog
  /\ service' = [service EXCEPT !.server = TRUE, !.running = TRUE,
                                !.shutdown_request = FALSE, !.is_shut_down = FALSE,
                                !.loop = "test", !.gui = "started"]
  /\ UNCHANGED <<amVars, lmVars, srvVars, codecVars, envVars, peerVars, handler, ret>>

\* stop_server up to the call of self.server.shutdown(): running is False,
\* shutdown() sets __shutdown_request and waits for __is_shut_down.
StopServer ==
  /\ service.gui = "idle" /\ service.server
  /\ service' = [service EXCEPT !.running = FALSE, !.shutdown_request = TRUE,
                                !.gui = "shutdown"]
  /\ UNCHANGED <<amVars, lmVars, srvVars, codecVars, envVars, peerVars, handler, ret>>

\* The window's thread goes on: start_server after the thread was started
\* (the widgets, add_log), or stop_server after shutdown() returned, which it
\* does once __is_shut_down is set (self.server = None, the widgets, add_log).
GuiStep ==
  /\ service.gui # "idle"
  /\ service.gui = "shutdown" => service.is_shut_down
  /\ service' = IF service.gui = "started"
                  THEN [service EXCEPT !.gui = "idle"]
                  ELSE [service EXCEPT !.gui = "idle", !.server = FALSE,
                                       !.stops = IF @ < MaxPending THEN @ + 1 ELSE @]
  /\ server_log' = add_log(server_log, Now,
                           IF service.gui = "started" THEN "server started"
                                                      ELSE "server stopped")
  /\ UNCHANGED <<amVars, lmVars, srv_accounts, srv_file, accounts_tree, token, codecVars,
                 envVars, peerVars, handler, ret>>

\* run_server: while self.running.
LoopTest ==
  /\ service.loop = "test"
  /\ service' = [service EXCEPT !.loop = IF service.running THEN "waiting" ELSE "exited"]
  /\ UNCHANGED <<amVars, lmVars, srvVars, codecVars, envVars, peerVars, handler, ret>>

\* A client connects; the listening socket stays open as long as the
\* HTTPServer object lives.
Connect ==
  /\ service.loop # "none"
  /\ service.pending < MaxPending
  /\ service' = [service EXCEPT !.pending = @ + 1]
  /\ UNCHANGED <<amVars, lmVars, srvVars, codecVars, envVars, peerVars, handler, ret>>

\* run_server: self.server.handle_request() returns once it has handled one
\* request; it waits without a timeout until one is there.
LoopHandle ==
  /\ service.loop = "waiting"
  /\ service.pending > 0
  /\ service' = [service EXCEPT !.pending = @ - 1, !.loop = "test",
                                !.late = @ \/ service.stops > 0]
  /\ UNCHANGED <<amVars, lmVars, srvVars, codecVars, envVars, peerVars, handler, ret>>

ServiceNext ==
  \/ StartServer
  \/ StopServer
  \/ GuiStep
  \/ LoopTest
  \/ Connect
  \/ LoopHandle
  \/ ClearLog
  \/ Tick

SpecService == Init /\ [][ServiceNext]_vars

\* Threads that can run do run; no client has to connect and nobody has to
\* press a button.
SpecServiceFair ==
  SpecService /\ WF_vars(GuiStep) /\ WF_vars(LoopTest) /\ WF_vars(LoopHandle)

-----------------------------------------------------------------------------
(* The envelope codec: round trip and integrity (SpecCodec) *)

-----------------------------------------------------------------------------
(* The Credential Store, auth_module.AccountManager (SpecStore) *)

\* The account a username names in the AccountManager, and what decides
\* verify_account for it.
StoredAccount(username) == Item(am_accounts, username)
StoredEnabled(username) ==
  Get(StoredAccount(username), "enabled", JBool(TRUE)) = JBool(TRUE)
StoredHashMatches(username, password) ==
  hash_password(password, Item(StoredAccount(username), "salt").s)
    = Item(StoredAccount(username), "password_hash").s

\* C3: verify_account succeeds exactly when the account exists, is enabled and
\* the hash derived from the password and the stored salt equals the stored
\* hash; otherwise its message is not-found, else disabled, else wrong
\* password, in that order.  After a successful add_account(u, p) the
\* password p verifies and another password is reported wrong; after a
\* toggle_account(u) that disabled u every password is reported disabled.
VerifyAccountContract ==
  /\ ret.op = "verify_account" =>
       /\ ~ret.raised
       /\ ret.ok <=> /\ HasKey(am_accounts, ret.username)
                     /\ StoredEnabled(ret.username)
                     /\ StoredHashMatches(ret.username, ret.password)
       /\ ret.msg = IF ~HasKey(am_accounts, ret.username) THEN MsgNotFound
                    ELSE IF ~StoredEnabled(ret.username) THEN MsgDisabled
                    ELSE IF ~StoredHashMatches(ret.username, ret.password)
                      THEN MsgWrongPass
                    ELSE MsgVerified
  /\ ret.op = "add_account" /\ ret.ok =>
       /\ verify_account(AM, ret.username, ret.password).ok
       /\ \A q \in KnownPasswords \ {ret.password} :
            verify_account(AM, ret.username, q).msg = MsgWrongPass
  /\ ret.op = "toggle_account" /\ ret.ok /\ ret.msg = MsgDisabled =>
       \A p \in KnownPasswords : verify_account(AM, ret.username, p).msg = MsgDisabled

\* A disabled account has been verified with a password that is not its own:
\* the answer is "disabled".
VerifyDisabledFirstSeen ==
  /\ ret.op = "verify_account" /\ ret.msg = MsgDisabled
  /\ ~StoredHashMatches(ret.username, ret.password)

\* C4: add_account fails with its specific message and changes neither the
\* accounts in memory nor the file when the username or the password is empty
\* or too short or the username exists; in every other case it succeeds and
\* the account is stored, enabled.
AddAccountContract ==
  [][Idle /\ ret'.op = "add_account" =>
       IF Len(ret'.username) = 0 \/ Len(ret'.password) = 0
            \/ Len(ret'.username) < MinUsernameLen
            \/ Len(ret'.password) < MinPasswordLen
            \/ HasKey(am_accounts, ret'.username)
         THEN /\ ~ret'.ok /\ ~ret'.raised
              /\ ret'.msg \in {MsgEmpty, MsgShortName, MsgShortPass, MsgExists}
              /\ am_accounts' = am_accounts
              /\ am_file' = am_file
         ELSE /\ ret'.ok
              /\ HasKey(am_accounts', ret'.username)
              /\ Get(Item(am_accounts', ret'.username), "enabled", JNull) = JBool(TRUE)
  ]_vars

\* C6: generate_license succeeds exactly when verify_account succeeds in the
\* same store; when it fails it returns verify_account's message and an empty
\* envelope; when it succeeds the envelope decrypts to a license with the
\* username and the account's salt and password_hash as they are stored.
GenerateLicenseContract ==
  ret.op = "generate_license" =>
    /\ ~ret.raised
    /\ ret.ok = verify_account(AM, ret.username, ret.password).ok
    /\ ~ret.ok => /\ ret.msg = verify_account(AM, ret.username, ret.password).msg
                  /\ ret.out = <<>>
    /\ ret.ok => /\ Get(decrypt_data(ret.out), "username", JNull) = JStr(ret.username)
                 /\ Get(decrypt_data(ret.out), "salt", JNull)
                      = Item(StoredAccount(ret.username), "salt")
                 /\ Get(decrypt_data(ret.out), "password_hash", JNull)
                      = Item(StoredAccount(ret.username), "password_hash")

\* A license has been generated.
LicenseGeneratedSeen ==
  ret.op = "generate_license" /\ ret.ok /\ Len(ret.out) > 0

ToggleStep(username) ==
  /\ ret'.ok /\ ~ret'.raised
  /\ Keys(am_accounts') = Keys(am_accounts)
  /\ Enabled(Item(am_accounts', username)) = ~StoredEnabled(username)
  /\ ret'.msg = IF StoredEnabled(username) THEN MsgDisabled ELSE MsgEnabled
  /\ \A other \in Keys(am_accounts) \ {username} :
       Item(am_accounts', other) = Item(am_accounts, other)
  /\ am_file'.exists
  /\ PyEq(Get(decrypt_data(am_file'.text), "accounts", JNull), am_accounts')
  /\ PyEq(toggle_account([accounts |-> am_accounts', file |-> am_file'],
                         username, Now, "ok").accounts,
          am_accounts)

\* C17: toggle_account on an account the AccountManager holds flips its
\* enabled flag, writes the file, reports the new state and changes no other
\* account, and a second toggle_account restores the flag; it does not raise,
\* and the flag is not flipped in memory unless it is flipped in the file.  On
\* an unknown username it fails and changes neither the accounts in memory
\* nor the file.
ToggleAccountContract ==
  [][Idle /\ ret'.op = "toggle_account" =>
       IF HasKey(am_accounts, ret'.username)
         THEN /\ ~ret'.raised
              /\ ret'.ok => ToggleStep(ret'.username)
              /\ ~ret'.ok => am_accounts' = am_accounts
         ELSE /\ ~ret'.ok /\ ~ret'.raised /\ ret'.msg = MsgNotFound
              /\ am_accounts' = am_accounts
              /\ am_file' = am_file
  ]_vars

\* What a step that is delete_account(username) on an account the
\* AccountManager holds does.
DeleteStep(username) ==
  /\ ret'.ok /\ ~ret'.raised /\ ret'.msg = MsgDeleted
  /\ Keys(am_accounts') = Keys(am_accounts) \ {username}
  /\ \A other \in Keys(am_accounts) \ {username} :
       Item(am_accounts', other) = Item(am_accounts, other)
  /\ am_file'.exists
  /\ PyEq(Get(decrypt_data(am_file'.text), "accounts", JNull), am_accounts')
  /\ \A p \in KnownPasswords :
       verify_account([accounts |-> am_accounts', file |-> am_file'], username, p).msg
         = MsgNotFound
  /\ \A p \in KnownPasswords :
       add_account([accounts |-> am_accounts', file |-> am_file'], username, p,
                   generate_salt(salts_drawn), Now, "ok").result.ok

\* C18: delete_account on an unknown username fails and changes neither the
\* accounts in memory nor the file; on an account the AccountManager holds it
\* removes that account and no other and writes the file, after which
\* verify_account reports not-found for every password and add_account of
\* the username is accepted again; it does not raise, and the account is not
\* removed from memory unless it is removed from the file.
DeleteAccountContract ==
  [][Idle /\ ret'.op = "delete_account" =>
       IF HasKey(am_accounts, ret'.username)
         THEN /\ ~ret'.raised
              /\ ret'.ok => DeleteStep(ret'.username)
              /\ ~ret'.ok => am_accounts' = am_accounts
         ELSE /\ ~ret'.ok /\ ~ret'.raised /\ ret'.msg = MsgNotFound
              /\ am_accounts' = am_accounts
              /\ am_file' = am_file
  ]_vars

\* C19: no call on an AccountManager raises: each hands its caller a status
\* and a message, whatever its arguments and whatever the file operations do.
StoreNeverRaises == ~ret.raised

\* The accounts the file holds.
PersistedAccounts == Get(decrypt_data(am_file.text), "accounts", EmptyDict)

\* C20: when two add_account calls with distinct valid usernames overlapped on
\* one accounts file, from two threads on one AccountManager or on two, and
\* both returned success, the file holds both accounts.
NoLostUpdate ==
  ((\A t \in Threads : writers[t].pc = "returned" /\ writers[t].ok)
     /\ (\E t \in Threads : writers[t].overlapped))
    => \A t \in Threads : HasKey(PersistedAccounts, writers[t].username)

\* C8: after add_account, delete_account or toggle_account has changed the
\* accounts in memory, the file decrypts to exactly these accounts and a new
\* AccountManager on the file holds them.
WriteThrough ==
  ret.op \in {"add_account", "delete_account", "toggle_account"}
    /\ (ret.ok \/ ret.raised) =>
      /\ am_file.exists
      /\ PyEq(Get(decrypt_data(am_file.text), "accounts", JNull), am_accounts)
      /\ load_accounts([accounts |-> EmptyDict, file |-> am_file], "ok") = am_accounts

\* C9: load_accounts ends with the accounts the file decrypts to, or with no
\* accounts when the file is missing, unreadable or does not decrypt, whatever
\* the accounts in memory were.
LoadFallsBack ==
  ret.op = "load_accounts" =>
    \/ am_accounts = EmptyDict
    \/ /\ am_file.exists
       /\ am_accounts = Get(decrypt_data(am_file.text), "accounts", EmptyDict)

-----------------------------------------------------------------------------
(* The License Holder, auth_module.LicenseManager (SpecLicense) *)

\* The clock readings of the model, as text.
Stamps == {Stamp(c) : c \in 0..MaxClock}

\* C7: once load_license has loaded a license file that holds what
\* generate_license(u, p) returns, is_licensed is true, get_username is u,
\* verify_offline(u, p) succeeds and verify_offline(u, q) fails for q # p.
LicenseRoundTrip ==
  ret.op = "load_license" /\ ret.ok =>
    \A u \in KnownUsernames, p \in KnownPasswords :
      (/\ verify_account(AM, u, p).ok
       /\ \E now \in Stamps :
            license_file.text = generate_license(AM, u, p, now, ServerHost).out)
      => /\ is_licensed(LM)
         /\ get_username(LM) = u
         /\ verify_offline(LM, u, p).ok
         /\ \A q \in KnownPasswords \ {p} : ~verify_offline(LM, u, q).ok

\* A license generated for abc and secret has been saved and loaded.
LicenseLoadedSeen ==
  /\ ret.op = "load_license" /\ ret.ok
  /\ verify_account(AM, "abc", "secret").ok
  /\ \E now \in Stamps :
       license_file.text = generate_license(AM, "abc", "secret", now, ServerHost).out
  /\ get_username(LM) = "abc"

\* C13: after load_license returns, is_licensed is true exactly when the file
\* was there and decrypt_data accepted its content in that call (load_license
\* returned True); when it was not, the holder is unlicensed and get_username
\* is empty, whatever license it held before.
LoadLicenseReflects ==
  ret.op = "load_license" =>
    /\ is_licensed(LM) <=> ret.ok
    /\ ret.ok => /\ license_file.exists
                 /\ license_data = decrypt_data(license_file.text)
    /\ ~ret.ok => get_username(LM) = ""

\* What the loaded license says of a username and a password.
LicenseNames(username) ==
  Get(license_data, "username", JNull) = JStr(username)
LicenseHashMatches(password) ==
  hash_password(password, Get(license_data, "salt", JStr("")).s)
    = Get(license_data, "password_hash", JStr("")).s

\* C14: a call of verify_offline changes neither the loaded license nor the
\* license file and does not raise; its message is no-license when no license
\* content is loaded, else username-mismatch when the username is not the
\* license's, else wrong-password when the hash derived from the password and
\* the license's salt is not the license's password_hash; it succeeds in the
\* remaining case only.
VerifyOfflineContract ==
  [][Idle /\ ret'.op = "verify_offline" =>
       /\ license_data' = license_data
       /\ license_file' = license_file
       /\ ~ret'.raised
       /\ ret'.msg = IF ~Truthy(license_data) THEN MsgNoLicense
                     ELSE IF ~LicenseNames(ret'.username) THEN MsgNameMismatch
                     ELSE IF ~LicenseHashMatches(ret'.password) THEN MsgWrongPass
                     ELSE MsgVerified
       /\ ret'.ok <=> /\ Truthy(license_data)
                      /\ LicenseNames(ret'.username)
                      /\ LicenseHashMatches(ret'.password)
  ]_vars

\* verify_offline has reported a username mismatch for a password that is
\* not the license's either.
VerifyOfflineNameFirstSeen ==
  /\ ret.op = "verify_offline" /\ ret.msg = MsgNameMismatch
  /\ ~LicenseHashMatches(ret.password)

\* The accounts in the account data of the given kind, and whether they hold
\* an enabled account of the username with the password.
SnapshotAccounts(kind) == Get(decrypt_data(Snapshot(kind)), "accounts", EmptyDict)
SnapshotAccepts(accounts, username, password) ==
  verify_account([accounts |-> accounts, file |-> NoFile], username, password).ok

\* What a step that is create_license_from_login(username, password, ...) on
\* account data holding accounts does; with atomic, a failure leaves the
\* license file as it was, without it a failed write may leave it truncated.
CreateLicenseStep(username, password, accounts, atomic) ==
  /\ ~ret'.raised
  /\ SnapshotAccepts(accounts, username, password)
       <=> ret'.ok \/ ret'.msg = MsgSaveFailed
  /\ ret'.ok =>
       /\ license_file'.exists
       /\ PyEq(decrypt_data(license_file'.text), license_data')
       /\ Get(license_data', "username", JNull) = JStr(username)
       /\ Get(license_data', "salt", JNull) = Item(Item(accounts, username), "salt")
       /\ Get(license_data', "password_hash", JNull)
            = Item(Item(accounts, username), "password_hash")
       /\ verify_offline([license_data |-> license_data', file |-> license_file'],
                         username, password).ok
  /\ ~ret'.ok =>
       /\ ret'.msg # ""
       /\ license_data' = license_data
       /\ \/ license_file' = license_file
          \/ ~atomic /\ ret'.msg = MsgSaveFailed /\ license_file' = FileOf(<<>>)

\* C15, as the claim states it: create_license_from_login succeeds exactly
\* when the account data decrypts to accounts holding an enabled account of the
\* username with the password (and the file is written); then the license
\* file decrypts to the license in memory, which has the username and the
\* account's salt and hash, and verify_offline succeeds; on every failure,
\* a failed write included, it returns a message and leaves the license in
\* memory and the license file as they were.
CreateLicenseAtomic ==
  [][Idle /\ ret'.op = "create_license_from_login" =>
       CreateLicenseStep(ret'.username, ret'.password, SnapshotAccounts(ret'.wanted), TRUE)
  ]_vars

\* C15, amended: as above, except that after a failed write the license file
\* is as it was or truncated to nothing.
CreateLicenseContract ==
  [][Idle /\ ret'.op = "create_license_from_login" =>
       CreateLicenseStep(ret'.username, ret'.password, SnapshotAccounts(ret'.wanted), FALSE)
  ]_vars

\* create_license_from_login has made a license on the client's machine.
LicenseCreatedSeen ==
  /\ ret.op = "create_license_from_login" /\ ret.ok
  /\ Get(license_data, "machine_id", JNull) = JStr(ClientHost)
  /\ license_file.exists

\* The text a step that is a call of save_license was handed.
TextSaved == IF ret'.wanted = "generated" THEN ret.out ELSE Snapshot(ret'.wanted)

\* C16: save_license(s) returns True exactly when the write succeeded; the
\* license file then holds s and nothing else, whether or not s is an
\* envelope, and the license in memory is untouched.  A load_license that
\* follows a successful save_license and reads the file leaves in memory
\* what decrypt_data makes of s: is_licensed is whether s decrypts, and the
\* license held before is gone.
SaveLicenseVerbatim ==
  [][/\ ret.op # "save_license" /\ ret'.op = "save_license" =>
          /\ ret'.ok <=> faults' = faults
          /\ ret'.ok => license_file' = FileOf(TextSaved)
          /\ ~ret'.ok => license_file' \in {license_file, FileOf(<<>>)}
          /\ license_data' = license_data
     /\ ret.op = "save_license" /\ ret.ok /\ ret'.op = "load_license"
          /\ faults' = faults =>
          /\ license_data' = decrypt_data(license_file.text)
          /\ is_licensed([license_data |-> license_data', file |-> license_file'])
               <=> decrypt_data(license_file.text) # JNull
          /\ license_file' = license_file
  ]_vars

\* A text that is no envelope has been saved as the license file and loaded:
\* the holder is unlicensed.
GarbageSavedSeen ==
  /\ ret.op = "load_license" /\ ~ret.ok
  /\ license_file = FileOf(Snapshot("text"))
  /\ license_data = JNull

-----------------------------------------------------------------------------
(* The Verification Service, saveany_server.py (SpecServer) *)

\* C5: /api/validate_token succeeds exactly when the token decrypts to a
\* payload whose username names an account that is in the server's accounts
\* and enabled at that moment, whatever the token's valid flag and issue time.
ValidateTokenLive ==
  ret.op = "api_validate_token" =>
    (ret.ok <=>
       /\ Get(decrypt_data(ret.out), "username", JNull).t = "str"
       /\ HasKey(srv_accounts, Get(decrypt_data(ret.out), "username", JNull).s)
       /\ Get(Item(srv_accounts, Get(decrypt_data(ret.out), "username", JNull).s),
              "enabled", JBool(TRUE)) = JBool(TRUE))

\* The token of an earlier /api/verify has been validated after its account
\* was deleted and created again.
TokenOutlivesAccountSeen ==
  /\ ret.op = "api_validate_token" /\ ret.ok
  /\ ret.out = token /\ token # <<>>
  /\ Item(Item(srv_accounts, ret.username), "salt") = JStr(generate_salt(1))
  /\ Get(decrypt_data(token), "issued", JNull) = JStr(Stamp(0))
  /\ Item(Item(srv_accounts, ret.username), "created") = JStr(Stamp(1))

\* C10: for a non-empty username and password /api/verify answers as
\* verify_account does on the server's accounts, success or not and with the
\* same message, and the token of a successful answer decrypts to the
\* username, an issue time and valid = true.
ApiVerifyAgrees ==
  ret.op = "api_verify" /\ Len(ret.username) > 0 /\ Len(ret.password) > 0 =>
    /\ ~ret.raised
    /\ ret.ok = verify_account([accounts |-> srv_accounts, file |-> srv_file],
                               ret.username, ret.password).ok
    /\ ret.msg = verify_account([accounts |-> srv_accounts, file |-> srv_file],
                                ret.username, ret.password).msg
    /\ ret.ok =>
         /\ Keys(decrypt_data(ret.out)) = {"username", "issued", "valid"}
         /\ Item(decrypt_data(ret.out), "username") = JStr(ret.username)
         /\ Item(decrypt_data(ret.out), "issued").t = "str"
         /\ Item(decrypt_data(ret.out), "valid") = JBool(TRUE)

\* /api/verify has answered with a token.
TokenIssuedSeen ==
  ret.op = "api_verify" /\ ret.ok /\ Len(ret.out) > 0

-----------------------------------------------------------------------------
(* The server's log and its requests (SpecServer) *)

\* The message of a log entry, after its "[timestamp] ".
EntryMessage(entry) == SubSeq(entry, Len("[" \o Stamp(0) \o "] ") + 1, Len(entry))

\* An entry /api/verify writes about its outcome, and the outcome it names.
IsAudit(entry) ==
  \/ StartsWith(EntryMessage(entry), 1, "verified: ")
  \/ StartsWith(EntryMessage(entry), 1, "verify failed: ")
AuditSuccess(entry) == StartsWith(EntryMessage(entry), 1, "verified: ")

\* The entries a step appended to server_log.
Appended == SubSeq(server_log', Len(server_log) + 1, Len(server_log'))

\* C21: every POST /api/verify, whatever it answers and whatever its body,
\* leaves the log with what it held before and exactly one new audit entry,
\* which names the outcome and is the last entry once the request is handled.
AuditLogged ==
  [][Idle /\ ret'.op \in {"api_verify", "post_verify"} =>
       /\ SubSeq(server_log', 1, Len(server_log)) = server_log
       /\ Cardinality({i \in 1..Len(Appended) : IsAudit(Appended[i])}) = 1
       /\ IsAudit(server_log'[Len(server_log')])
       /\ AuditSuccess(server_log'[Len(server_log')]) = ret'.ok
  ]_vars

-----------------------------------------------------------------------------
(* The license and the machine (SpecLicense) *)

\* The loaded license with another machine_id and another issued.
Reissued(machineId, issued) ==
  [license_data |-> SetItem(SetItem(license_data, "machine_id", JStr(machineId)),
                            "issued", JStr(issued)),
   file |-> license_file]

\* C22: what verify_offline answers does not depend on the license's
\* machine_id or issued: a license that differs from the loaded one in these
\* two fields only gets the same (ok, message) for every username and password.
MachineIdUnchecked ==
  license_data.t = "dict" /\ HasKey(license_data, "machine_id")
    /\ HasKey(license_data, "issued") =>
    \A machineId \in MachineIds, issued \in Stamps,
       username \in KnownUsernames, password \in KnownPasswords :
      verify_offline(Reissued(machineId, issued), username, password)
        = verify_offline(LM, username, password)

\* verify_offline accepted, on the client, a license issued for the server's
\* machine.
ForeignLicenseVerifiedSeen ==
  /\ ret.op = "verify_offline" /\ ret.ok
  /\ Get(license_data, "machine_id", JNull) = JStr(ServerHost)

-----------------------------------------------------------------------------
(* The life of an account (SpecStore) *)

\* The account of username is in the AccountManager before and after the step.
Lives(username) == HasKey(am_accounts, username) /\ HasKey(am_accounts', username)

\* The step left salt, password_hash and created of the account alone.
IdentityKept(username) ==
  \A field \in {"salt", "password_hash", "created"} :
    Get(Item(am_accounts', username), field, JNull)
      = Get(Item(am_accounts, username), field, JNull)

\* The step changed the enabled flag of the account.
Flipped(username) ==
  Get(Item(am_accounts', username), "enabled", JBool(TRUE))
    # Get(Item(am_accounts, username), "enabled", JBool(TRUE))

\* C23: while an account is in the AccountManager no call changes its salt,
\* password_hash or created, and its enabled flag changes only in a
\* toggle_account of its username that succeeds.
AccountFrame ==
  [][\A username \in KnownUsernames :
       Lives(username) =>
         /\ IdentityKept(username)
         /\ Flipped(username) =>
              ret'.op = "toggle_account" /\ ret'.ok /\ ret'.username = username
  ]_vars

-----------------------------------------------------------------------------
(* decrypt_data and its callers (SpecCodec) *)

\* What the envelope holds under its two layers of base64 and the xor, read
\* without any check of the signature: [ok, val].
EmbeddedOf(data) ==
  IF ~data.ok THEN [ok |-> FALSE, val |-> JNull]
  ELSE IF ~Utf8Valid(data.out) THEN [ok |-> FALSE, val |-> JNull]
  ELSE Loads(Utf8Decode(data.out))
Embedded ==
  IF ~B64Decode(envelope).ok THEN [ok |-> FALSE, val |-> JNull]
  ELSE EmbeddedOf(B64Decode(Deobfuscate(B64Decode(envelope).out)))

\* The envelope holds a payload and a signature that is not the payload's.
EmbeddedUnsigned ==
  /\ Embedded.ok /\ Embedded.val.t = "dict"
  /\ HasKey(Embedded.val, "data") /\ HasKey(Embedded.val, "signature")
  /\ Item(Embedded.val, "signature")
       # JStr(create_signature(Dumps(Item(Embedded.val, "data"))))

\* What a caller holds when it hands the envelope to decrypt_data.
HeldAccounts == JDict(<< <<"abc", Account("0a", "h", Stamp(0), TRUE)>> >>)
HeldLicense == TokenPayload("abc", Stamp(0), TRUE)

\* C24: decrypt_data returns either the payload the envelope holds, whose
\* recomputed signature is the one the envelope holds, or None; and on None
\* load_accounts of AccountManager and of the server, load_license,
\* /api/validate_token and create_license_from_login take nothing from the
\* envelope: load_accounts keeps (AccountManager) or empties (server) the
\* accounts, load_license holds no license, the other two answer failure.
DecodeAllOrNothing ==
  ret.op = "decrypt_data" =>
    /\ decrypted # JNull =>
         /\ Embedded.ok
         /\ decrypted = Item(Embedded.val, "data")
         /\ Item(Embedded.val, "signature") = JStr(create_signature(Dumps(decrypted)))
    /\ decrypted = JNull =>
         /\ load_accounts([accounts |-> HeldAccounts, file |-> FileOf(envelope)], "ok")
              = HeldAccounts
         /\ server_load_accounts(FileOf(envelope), "ok") = EmptyDict
         /\ load_license([license_data |-> HeldLicense, file |-> FileOf(envelope)], "ok")
              = [license_data |-> JNull,
                 result |-> Result("load_license", "", "", FALSE, "")]
         /\ ~api_validate_token(HeldAccounts, <<>>, envelope, Stamp(0)).response.ok
         /\ api_validate_token(HeldAccounts, <<>>, envelope, Stamp(0)).response.msg
              = MsgTokenInvalid
         /\ create_license_from_login([license_data |-> JNull, file |-> NoFile], "abc",
                                      "secret", envelope, Stamp(0), ClientHost, "ok")
              = CreateFailed([license_data |-> JNull, file |-> NoFile], "abc", "secret",
                             MsgSnapshotInvalid)

\* decrypt_data has returned None for an envelope that holds a payload with a
\* signature that is not its own.
UnsignedWithheldSeen ==
  ret.op = "decrypt_data" /\ decrypted = JNull /\ EmbeddedUnsigned

-----------------------------------------------------------------------------
(* Requests while the window changes the accounts (SpecRace) *)

\* C25: every request to /api/verify and /api/validate_token is answered,
\* whatever the window's thread does to the accounts meanwhile: do_POST never
\* ends in a KeyError between `username in accounts` and accounts[username].
RequestsAnswered ==
  handler.pc = "done" /\ handler.username # "" => handler.answered /\ ~handler.failed

-----------------------------------------------------------------------------
(* Stopping the service (SpecServiceFair) *)

\* C26: once stop_server has been called it returns and run_server leaves its
\* loop, without any further request arriving, and no request is handled
\* after stop_server has returned.
StopTerminates ==
  /\ (service.gui = "shutdown") ~> (service.gui = "idle" /\ service.loop = "exited")
  /\ [](~service.late)

-----------------------------------------------------------------------------
(* What /api/validate_token accepts (SpecServer) *)

\* The payloads of the envelopes the system makes besides tokens.
IsLicensePayload(v) ==
  v.t = "dict" /\ Keys(v) = {"username", "password_hash", "salt", "issued", "machine_id"}
IsStorePayload(v) == v.t = "dict" /\ HasKey(v, "accounts")

\* C27: /api/validate_token never answers success for an envelope that is a
\* license, as generate_license and create_license_from_login make them, or
\* the accounts file: only for tokens that /api/verify minted.
OnlyTokensAccepted ==
  ret.op = "api_validate_token" /\ ret.ok =>
    /\ ~IsLicensePayload(decrypt_data(ret.out))
    /\ ~IsStorePayload(decrypt_data(ret.out))

-----------------------------------------------------------------------------
(* Being licensed (SpecLicense) *)

\* C28: whatever the license file held when it was loaded, is_licensed() is
\* true exactly when verify_offline does not answer that there is no license,
\* and is_licensed() true means get_username() is not empty.
LicensedConsistent ==
  /\ \A username \in KnownUsernames, password \in KnownPasswords :
       is_licensed(LM) <=> verify_offline(LM, username, password).msg # MsgNoLicense
  /\ is_licensed(LM) => get_username(LM) # ""

-----------------------------------------------------------------------------
(* The two implementations of the store (SpecTwin) *)

\* The accounts a file holds, as either implementation decodes them.
DecodedAccounts(file) ==
  IF file.exists THEN Get(decrypt_data(file.text), "accounts", EmptyDict) ELSE EmptyDict

\* C29: AccountManager and the server's store, started alike and given the
\* same loads, adds, deletes and toggles, hold the same accounts after every
\* step, and their files decode to the same accounts.
StoresEquivalent ==
  /\ PyEq(am_accounts, srv_accounts)
  /\ am_file.exists = srv_file.exists
  /\ PyEq(DecodedAccounts(am_file), DecodedAccounts(srv_file))

-----------------------------------------------------------------------------
(* The size of the log (SpecLog) *)

\* The entry add_log is writing in this step.
NewEntry == "[" \o Now \o "] " \o LogMessage(Len(server_log))

\* C30: server_log never holds more than LogLimit entries; a call of add_log
\* that would make it longer leaves the LogKeep most recent entries, any other
\* call of add_log leaves the log with the new entry added; in both cases the
\* new entry is the last one.
LogBounded ==
  [][/\ Len(server_log') <= LogLimit
     /\ server_log' # <<>> =>
          /\ server_log'[Len(server_log')] = NewEntry
          /\ IF Len(server_log) + 1 > LogLimit
               THEN /\ Len(server_log') = LogKeep
                    /\ \A i \in 1..(LogKeep - 1) :
                         server_log'[i] = server_log[Len(server_log) - LogKeep + 1 + i]
               ELSE server_log' = Append(server_log, NewEntry)
  ]_vars

\* The log has been cut: it holds LogKeep entries and its last one was
\* written when it held LogLimit.
LogCutSeen ==
  /\ Len(server_log) = LogKeep
  /\ server_log[LogKeep] = "[" \o Now \o "] " \o LogMessage(LogLimit)

=============================================================================
